---------------------------- MODULE Spec2Model ----------------------------
(***************************************************************************)
(* Model of the GOTO binary serializer / deserializer of                   *)
(* cprover_bindings/src/irep/goto_binary_serde.rs:                         *)
(*   - IrepNumbering       : content-addressed numbering of strings/ireps  *)
(*   - GotoBinarySerializer: back-reference based writer                   *)
(*   - GotoBinaryDeserializer: the dual reader                             *)
(*                                                                         *)
(* Conventions.  A Rust Vec is a TLA+ sequence; Rust index i is TLA+ index *)
(* i+1 (operator At).  A HashMap is a TLA+ function whose DOMAIN is the    *)
(* key set.  An InternedString is the sequence of its characters (Unicode  *)
(* code points); a byte is a number in 0..255.  An Irep is a record        *)
(* [id, sub, named_sub] with named_sub a sequence of <<key, irep>> pairs.  *)
(* Every stateful method is an operator from the object's state to a       *)
(* record holding the new state and the returned value.                    *)
(***************************************************************************)
EXTENDS Integers, Sequences, FiniteSets, TLC

VARIABLES
    ser,      \* the GotoBinarySerializer (numbering, buf, writer, counts)
    de,       \* the GotoBinaryDeserializer (bytes, numbering, counts, maps)
    phase,    \* "write": serializer in use; "read": deserializer in use
    written,  \* history: the top-level calls made on the serializer
    readres,  \* history: the results of the top-level reads
    last      \* history: the most recent top-level call, with the state before it

vars == <<ser, de, phase, written, readres, last>>

----------------------------------------------------------------------------
(* Generic helpers for Vec and HashMap                                     *)

\* v[i] for a Rust Vec v and a 0-based index i
At(v, i) == v[i + 1]

\* Vec::resize(n, x) when n >= len: pads with x
Resize(v, n, x) == v \o [i \in 1..(n - Len(v)) |-> x]

EmptyMap == [k \in {} |-> 0]

MapPut(m, k, v) == [x \in (DOMAIN m) \cup {k} |-> IF x = k THEN v ELSE m[x]]

RECURSIVE Pow2(_)
Pow2(n) == IF n = 0 THEN 1 ELSE 2 * Pow2(n - 1)

----------------------------------------------------------------------------
(* Bounds                                                                  *)

\* Bit width of usize in the model (the build target decides it: 64 on the
\* usual targets).  Like 64, the width is not a multiple of 7, so the last
\* group of a maximal encoding is only partly used; it holds the 17 bits of
\* the flag word of a symbol and one bit above them.
UsizeBits == 18

UsizeMax == Pow2(UsizeBits) - 1

\* Top-level calls made on one serializer / engine in a session.
MaxWrites == 3

\* Values written back to back in a varint session.
MaxVarints == 2

\* Length of a raw input handed to a deserializer in a varint session.
MaxInputLen == 4

\* Characters in an atom of an atom session.
MaxAtomLen == 2

\* Symbols in the symbol table of a file session.
MaxSymbols == 2

\* Top-level reads made on a byte stream that no serializer wrote.
MaxReads == 2

\* Length up to which every byte stream over StreamBytes is read.
MaxStreamLen == 6

\* Values written first in a varint session: every value below this one
\* (and the values next to the powers of two above it).
MaxDense == 512

----------------------------------------------------------------------------
(* Characters                                                              *)

ChDigit0 == 48    \* '0'
ChBackslash == 92 \* '\\'

----------------------------------------------------------------------------
(* IrepKey, IrepNumberingInv, IrepNumbering                                *)

RECURSIVE FlattenPairs(_)
FlattenPairs(named_sub) ==
    IF named_sub = <<>> THEN <<>>
    ELSE <<Head(named_sub)[1], Head(named_sub)[2]>> \o FlattenPairs(Tail(named_sub))

\* Mutant of IrepKey_new: the id is left out of the key
IrepKey_new_no_id(id, sub, named_sub) ==
    <<0, Len(sub)>> \o sub \o <<Len(named_sub)>> \o FlattenPairs(named_sub)

\* IrepKey::new: id, sub.len(), sub..., named_sub.len(), (k, v)...
IrepKey_new(id, sub, named_sub) ==
    <<id, Len(sub)>> \o sub \o <<Len(named_sub)>> \o FlattenPairs(named_sub)

IrepNumberingInv_new == [index |-> <<>>, keys |-> <<>>]

\* Mutant of add_key: the key is put at the front of the keys array
add_key_at_front(inv, key) ==
    LET number == Len(inv.index)
    IN [inv |-> [index |-> Append(inv.index, [number |-> number, start_index |-> 0]),
                 keys  |-> key \o inv.keys],
        r   |-> number]

\* IrepNumberingInv::add_key
add_key(inv, key) ==
    LET number == Len(inv.index)
    IN [inv |-> [index |-> Append(inv.index,
                                   [number |-> number, start_index |-> Len(inv.keys)]),
                 keys  |-> inv.keys \o key],
        r   |-> number]

IrepNumbering_new ==
    [string_cache     |-> EmptyMap,
     inv_string_cache |-> <<>>,
     cache            |-> EmptyMap,
     inv_cache        |-> IrepNumberingInv_new]

\* Option<T>: [some |-> TRUE, v |-> x] or None
Some(x) == [some |-> TRUE, v |-> x]
None == [some |-> FALSE]

\* Vec::get
VecGet(v, i) == IF i < Len(v) THEN Some(At(v, i)) ELSE None

numbered_string_from_number(N, string_number) == VecGet(N.inv_string_cache, string_number)

numbered_irep_from_number(N, irep_number) == VecGet(N.inv_cache.index, irep_number)

\* Mutant of number_string: the new entry is not inserted in string_cache
number_string_no_insert(N, string) ==
    LET len == Cardinality(DOMAIN N.string_cache)
    IN IF string \in DOMAIN N.string_cache
       THEN [n |-> N, r |-> At(N.inv_string_cache, N.string_cache[string])]
       ELSE LET N1 == [N EXCEPT
                         !.inv_string_cache =
                             Append(@, [number |-> len, string |-> string])]
            IN [n |-> N1, r |-> At(N1.inv_string_cache, len)]

\* IrepNumbering::number_string
number_string(N, string) ==
    LET len == Cardinality(DOMAIN N.string_cache)
    IN IF string \in DOMAIN N.string_cache
       THEN [n |-> N, r |-> At(N.inv_string_cache, N.string_cache[string])]
       ELSE LET N1 == [N EXCEPT
                         !.inv_string_cache =
                             Append(@, [number |-> len, string |-> string]),
                         !.string_cache = MapPut(@, string, len)]
            IN [n |-> N1, r |-> At(N1.inv_string_cache, len)]

\* Mutant of number_irep_id: ids are numbered apart from other strings
number_irep_id_apart(N, irep_id) == number_string(N, <<35>> \o irep_id)

\* IrepNumbering::number_irep_id: an IrepId is numbered by its string
number_irep_id(N, irep_id) == number_string(N, irep_id)

\* Mutant of get_or_insert: a new key is not entered in the cache
get_or_insert_uncached(N, key) ==
    IF key \in DOMAIN N.cache
    THEN [n |-> N, r |-> At(N.inv_cache.index, N.cache[key])]
    ELSE LET a  == add_key(N.inv_cache, key)
             N1 == [N EXCEPT !.inv_cache = a.inv]
         IN [n |-> N1, r |-> At(N1.inv_cache.index, a.r)]

\* Mutant of get_or_insert: the cache is not consulted
get_or_insert_always(N, key) ==
    LET a  == add_key(N.inv_cache, key)
        N1 == [N EXCEPT !.inv_cache = a.inv,
                        !.cache = MapPut(@, key, a.r)]
    IN [n |-> N1, r |-> At(N1.inv_cache.index, a.r)]

\* IrepNumbering::get_or_insert
get_or_insert(N, key) ==
    IF key \in DOMAIN N.cache
    THEN [n |-> N, r |-> At(N.inv_cache.index, N.cache[key])]
    ELSE LET a  == add_key(N.inv_cache, key)
             N1 == [N EXCEPT !.inv_cache = a.inv,
                             !.cache = MapPut(@, key, a.r)]
         IN [n |-> N1, r |-> At(N1.inv_cache.index, a.r)]

RECURSIVE number_irep(_, _), number_subs(_, _), number_named_subs(_, _)

\* Mutant of number_subs: the number recorded for a child is one too high
number_subs_off_by_one(N, sub) ==
    IF sub = <<>> THEN [n |-> N, r |-> <<>>]
    ELSE LET h == number_irep(N, Head(sub))
             t == number_subs(h.n, Tail(sub))
         IN [n |-> t.n, r |-> <<h.r.number + 1>> \o t.r]

\* irep.sub.iter().map(|sub| self.number_irep(sub).number).collect()
number_subs(N, sub) ==
    IF sub = <<>> THEN [n |-> N, r |-> <<>>]
    ELSE LET h == number_irep(N, Head(sub))
             t == number_subs(h.n, Tail(sub))
         IN [n |-> t.n, r |-> <<h.r.number>> \o t.r]

\* irep.named_sub.iter().map(|(key, value)| (number_irep_id(key), number_irep(value)))
number_named_subs(N, named_sub) ==
    IF named_sub = <<>> THEN [n |-> N, r |-> <<>>]
    ELSE LET k == number_irep_id(N, Head(named_sub)[1])
             v == number_irep(k.n, Head(named_sub)[2])
             t == number_named_subs(v.n, Tail(named_sub))
         IN [n |-> t.n, r |-> <<<<k.r.number, v.r.number>>>> \o t.r]

\* Mutant of number_irep: the id is numbered after the children
number_irep_id_last(N, irep) ==
    LET sub       == number_subs(N, irep.sub)
        named_sub == number_named_subs(sub.n, irep.named_sub)
        id        == number_irep_id(named_sub.n, irep.id)
        key       == IrepKey_new(id.r.number, sub.r, named_sub.r)
    IN get_or_insert(id.n, key)

\* Mutant of number_irep: the node gets a new number on every call
number_irep_renumbered(N, irep) ==
    LET id        == number_irep_id(N, irep.id)
        sub       == number_subs(id.n, irep.sub)
        named_sub == number_named_subs(sub.n, irep.named_sub)
        key       == IrepKey_new(id.r.number, sub.r, named_sub.r)
    IN get_or_insert_always(named_sub.n, key)

\* IrepNumbering::number_irep
number_irep(N, irep) ==
    LET id        == number_irep_id(N, irep.id)
        sub       == number_subs(id.n, irep.sub)
        named_sub == number_named_subs(sub.n, irep.named_sub)
        key       == IrepKey_new(id.r.number, sub.r, named_sub.r)
    IN get_or_insert(named_sub.n, key)

\* Accessors on a NumberedIrep: offset arithmetic in inv_cache.keys
id(N, numbered_irep) ==
    At(N.inv_string_cache, At(N.inv_cache.keys, numbered_irep.start_index))

nof_sub(N, numbered_irep) == At(N.inv_cache.keys, numbered_irep.start_index + 1)

\* Mutant of sub: the offset skips the id and not the number of children
sub_without_count(N, numbered_irep, sub_idx) ==
    At(N.inv_cache.index, At(N.inv_cache.keys, numbered_irep.start_index + sub_idx + 1))

sub(N, numbered_irep, sub_idx) ==
    At(N.inv_cache.index, At(N.inv_cache.keys, numbered_irep.start_index + sub_idx + 2))

nof_named_sub(N, numbered_irep) ==
    At(N.inv_cache.keys, numbered_irep.start_index + nof_sub(N, numbered_irep) + 2)

named_sub(N, numbered_irep, named_sub_idx) ==
    LET start_index == numbered_irep.start_index + nof_sub(N, numbered_irep)
                         + 2 * named_sub_idx + 3
    IN <<At(N.inv_string_cache, At(N.inv_cache.keys, start_index)),
         At(N.inv_cache.index, At(N.inv_cache.keys, start_index + 1))>>


----------------------------------------------------------------------------
(* GotoBinarySerializer                                                    *)
(* The field trace is instrumentation: one event per write-reference call  *)
(* (nested calls included) with the output offsets where the call started  *)
(* and ended.  No operator of the serializer reads it.                     *)

GotoBinarySerializer_new ==
    [writer       |-> <<>>,
     buf          |-> <<>>,
     numbering    |-> IrepNumbering_new,
     irep_count   |-> <<>>,
     string_count |-> <<>>,
     trace        |-> <<>>]

\* Number of bytes handed to the serializer output so far
Emitted(S) == Len(S.writer) + Len(S.buf)

\* Mutant of is_first_write_string: the count stops at one
is_first_write_string_capped(S, u) ==
    LET sc    == IF u >= Len(S.string_count) THEN Resize(S.string_count, u + 1, 0)
                 ELSE S.string_count
        count == At(sc, u)
    IN [s |-> [S EXCEPT !.string_count = [sc EXCEPT ![u + 1] = 1]],
        r |-> (count = 0)]

is_first_write_string(S, u) ==
    LET sc    == IF u >= Len(S.string_count) THEN Resize(S.string_count, u + 1, 0)
                 ELSE S.string_count
        count == At(sc, u)
    IN [s |-> [S EXCEPT !.string_count = [sc EXCEPT ![u + 1] = count + 1]],
        r |-> (count = 0)]

\* Mutant of is_first_write_irep: the second write counts as a first one too
is_first_write_irep_twice(S, u) ==
    LET ic    == IF u >= Len(S.irep_count) THEN Resize(S.irep_count, u + 1, 0)
                 ELSE S.irep_count
        count == At(ic, u)
    IN [s |-> [S EXCEPT !.irep_count = [ic EXCEPT ![u + 1] = count + 1]],
        r |-> (count <= 1)]

\* Mutant of is_first_write_irep: the count is not incremented
is_first_write_irep_no_count(S, u) ==
    LET ic    == IF u >= Len(S.irep_count) THEN Resize(S.irep_count, u + 1, 0)
                 ELSE S.irep_count
        count == At(ic, u)
    IN [s |-> [S EXCEPT !.irep_count = ic],
        r |-> (count = 0)]

is_first_write_irep(S, u) ==
    LET ic    == IF u >= Len(S.irep_count) THEN Resize(S.irep_count, u + 1, 0)
                 ELSE S.irep_count
        count == At(ic, u)
    IN [s |-> [S EXCEPT !.irep_count = [ic EXCEPT ![u + 1] = count + 1]],
        r |-> (count = 0)]

flush(S) == [S EXCEPT !.writer = @ \o S.buf, !.buf = <<>>]

write_u8(S, u) == [S EXCEPT !.buf = Append(@, u)]

\* The loop of write_usize_varenc on a buffer: v = u & 0x7f; u >>= 7;
\* push v if u == 0, else push v | 0x80 and go on
RECURSIVE varenc(_, _)
varenc(buf, u) ==
    LET v  == u % 128
        u1 == u \div 128
    IN IF u1 = 0 THEN Append(buf, v)
       ELSE varenc(Append(buf, v + 128), u1)

\* Mutant of write_usize_varenc: every group gets the continuation bit and
\* a final zero group ends the encoding
RECURSIVE varenc_padded(_, _)
varenc_padded(buf, u) ==
    IF u = 0 THEN Append(buf, 0)
    ELSE varenc_padded(Append(buf, (u % 128) + 128), u \div 128)

write_usize_varenc_padded(S, u) == [S EXCEPT !.buf = varenc_padded(@, u)]

write_usize_varenc(S, u) == [S EXCEPT !.buf = varenc(@, u)]

is_ascii(c) == c < 128

\* char::encode_utf8 into a zeroed 4-byte buffer
encode_utf8(c) ==
    IF c < 128 THEN <<c, 0, 0, 0>>
    ELSE IF c < 2048 THEN <<192 + (c \div 64), 128 + (c % 64), 0, 0>>
    ELSE IF c < 65536
         THEN <<224 + (c \div 4096), 128 + ((c \div 64) % 64), 128 + (c % 64), 0>>
    ELSE <<240 + (c \div 262144), 128 + ((c \div 4096) % 64),
           128 + ((c \div 64) % 64), 128 + (c % 64)>>

\* for u in buf { if u == 0 { break; } push(u) }
RECURSIVE push_until_zero(_, _)
push_until_zero(buf, bytes) ==
    IF bytes = <<>> \/ Head(bytes) = 0 THEN buf
    ELSE push_until_zero(Append(buf, Head(bytes)), Tail(bytes))

\* One iteration of the loop over raw_str.chars() in write_numbered_string_ref
write_char(buf, c) ==
    IF is_ascii(c)
    THEN Append(IF c = ChDigit0 \/ c = ChBackslash THEN Append(buf, ChBackslash) ELSE buf, c)
    ELSE push_until_zero(buf, encode_utf8(c))

RECURSIVE write_chars(_, _)
write_chars(buf, chars) ==
    IF chars = <<>> THEN buf
    ELSE write_chars(write_char(buf, Head(chars)), Tail(chars))

write_numbered_string_ref(S, numbered_string) ==
    LET num == numbered_string.number
        S1  == write_usize_varenc(S, num)
        f   == is_first_write_string(S1, num)
        S2  == IF f.r
               THEN [f.s EXCEPT !.buf = Append(write_chars(@, numbered_string.string), 0)]
               ELSE f.s
        S3  == flush(S2)
    IN [S3 EXCEPT !.trace = Append(@, [kind |-> "string", number |-> num,
                                       from |-> Emitted(S), to |-> Emitted(S3)])]

RECURSIVE write_numbered_irep_ref(_, _), write_subs(_, _, _), write_named_subs(_, _, _)

\* for sub_idx in 0..nof_sub(irep): write 'S' and the reference
write_subs(S, irep, sub_idx) ==
    IF sub_idx >= nof_sub(S.numbering, irep) THEN S
    ELSE write_subs(
             write_numbered_irep_ref(write_u8(S, 83), sub(S.numbering, irep, sub_idx)),
             irep, sub_idx + 1)

\* for named_sub_idx in 0..nof_named_sub(irep): write 'N', the key and the value
write_named_subs(S, irep, named_sub_idx) ==
    IF named_sub_idx >= nof_named_sub(S.numbering, irep) THEN S
    ELSE LET kv == named_sub(S.numbering, irep, named_sub_idx)
             S1 == write_numbered_string_ref(write_u8(S, 78), kv[1])
             S2 == write_numbered_irep_ref(S1, kv[2])
         IN write_named_subs(S2, irep, named_sub_idx + 1)

\* Mutant of write_numbered_irep_ref: the named children are written before
\* the positional children
write_numbered_irep_ref_named_first(S, irep) ==
    LET num == irep.number
        S1  == write_usize_varenc(S, num)
        f   == is_first_write_irep(S1, num)
        S2  == IF f.r
               THEN LET Sa == write_numbered_string_ref(f.s, id(f.s.numbering, irep))
                        Sb == write_named_subs(Sa, irep, 0)
                        Sc == write_subs(Sb, irep, 0)
                    IN write_u8(Sc, 0)
               ELSE f.s
        S3  == flush(S2)
    IN [S3 EXCEPT !.trace = Append(@, [kind |-> "irep", number |-> num,
                                       from |-> Emitted(S), to |-> Emitted(S3)])]

write_numbered_irep_ref(S, irep) ==
    LET num == irep.number
        S1  == write_usize_varenc(S, num)
        f   == is_first_write_irep(S1, num)
        S2  == IF f.r
               THEN LET Sa == write_numbered_string_ref(f.s, id(f.s.numbering, irep))
                        Sb == write_subs(Sa, irep, 0)
                        Sc == write_named_subs(Sb, irep, 0)
                    IN write_u8(Sc, 0)
               ELSE f.s
        S3  == flush(S2)
    IN [S3 EXCEPT !.trace = Append(@, [kind |-> "irep", number |-> num,
                                       from |-> Emitted(S), to |-> Emitted(S3)])]

write_string_ref(S, str) ==
    LET ns == number_string(S.numbering, str)
    IN write_numbered_string_ref([S EXCEPT !.numbering = ns.n], ns.r)

write_irep_ref(S, irep) ==
    LET ni == number_irep(S.numbering, irep)
    IN write_numbered_irep_ref([S EXCEPT !.numbering = ni.n], ni.r)


----------------------------------------------------------------------------
(* GotoBinaryDeserializer                                                  *)
(* bytes is the Bytes<R> iterator over the input: the input and the number *)
(* of bytes consumed.  A method returning io::Result<T> is an operator     *)
(* returning [d, tag, r]: tag "Ok" with the value r, tag "Err" with the    *)
(* message r, or tag "panic" (a failed unwrap, an index out of bounds or   *)
(* an explicit panic!) with the message r.                                 *)
(* The fields symbols_read, symbol_ends and tags are instrumentation: the  *)
(* number of read_symbol calls that returned Ok, the offset where each of  *)
(* them ended, and one event per byte that the loop of                     *)
(* read_numbered_irep_ref matched, with the stream number of the node      *)
(* being read and the number of nodes of the engine at that moment.        *)
(* No operator of the deserializer reads them.                             *)

GotoBinaryDeserializer_new(reader) ==
    [input        |-> reader,
     pos          |-> 0,
     numbering    |-> IrepNumbering_new,
     string_count |-> <<>>,
     string_map   |-> <<>>,
     irep_count   |-> <<>>,
     irep_map     |-> <<>>,
     symbols_read |-> 0,
     symbol_ends  |-> <<>>,
     tags         |-> <<>>]

Ok(D, x) == [d |-> D, tag |-> "Ok", r |-> x]
Err(D, msg) == [d |-> D, tag |-> "Err", r |-> msg]
Panic(D, msg) == [d |-> D, tag |-> "panic", r |-> msg]

\* self.bytes.next(): None at the end of the input
bytes_next(D) ==
    IF D.pos < Len(D.input)
    THEN [d |-> [D EXCEPT !.pos = @ + 1], r |-> Some(At(D.input, D.pos))]
    ELSE [d |-> D, r |-> None]

\* Mutant of is_first_read_string: every read counts as a first one
is_first_read_string_always(D, u) ==
    LET sc    == IF u >= Len(D.string_count) THEN Resize(D.string_count, u + 1, 0)
                 ELSE D.string_count
        count == At(sc, u)
    IN [d |-> [D EXCEPT !.string_count = [sc EXCEPT ![u + 1] = count + 1]],
        r |-> TRUE]

is_first_read_string(D, u) ==
    LET sc    == IF u >= Len(D.string_count) THEN Resize(D.string_count, u + 1, 0)
                 ELSE D.string_count
        count == At(sc, u)
    IN [d |-> [D EXCEPT !.string_count = [sc EXCEPT ![u + 1] = count + 1]],
        r |-> (count = 0)]

\* tag "Ok", or "panic" when num_binary is already mapped
add_string_mapping(D, num_binary, num) ==
    LET sm == IF num_binary >= Len(D.string_map)
              THEN Resize(D.string_map, num_binary + 1, None) ELSE D.string_map
    IN IF At(sm, num_binary).some
       THEN Panic([D EXCEPT !.string_map = sm], "string number already mapped")
       ELSE Ok([D EXCEPT !.string_map = [sm EXCEPT ![num_binary + 1] = Some(num)]], TRUE)

\* Mutant of is_first_read_irep: every read counts as a first one
is_first_read_irep_always(D, u) ==
    LET ic    == IF u >= Len(D.irep_count) THEN Resize(D.irep_count, u + 1, 0)
                 ELSE D.irep_count
        count == At(ic, u)
    IN [d |-> [D EXCEPT !.irep_count = [ic EXCEPT ![u + 1] = count + 1]],
        r |-> TRUE]

is_first_read_irep(D, u) ==
    LET ic    == IF u >= Len(D.irep_count) THEN Resize(D.irep_count, u + 1, 0)
                 ELSE D.irep_count
        count == At(ic, u)
    IN [d |-> [D EXCEPT !.irep_count = [ic EXCEPT ![u + 1] = count + 1]],
        r |-> (count = 0)]

\* Mutant of add_irep_mapping: every stream number is mapped to engine
\* number 0
add_irep_mapping_to_first(D, num_binary, num) ==
    LET im == IF num_binary >= Len(D.irep_map)
              THEN Resize(D.irep_map, num_binary + 1, None) ELSE D.irep_map
    IN IF At(im, num_binary).some
       THEN Panic([D EXCEPT !.irep_map = im], "irep number already mapped")
       ELSE Ok([D EXCEPT !.irep_map = [im EXCEPT ![num_binary + 1] = Some(0)]], TRUE)

add_irep_mapping(D, num_binary, num) ==
    LET im == IF num_binary >= Len(D.irep_map)
              THEN Resize(D.irep_map, num_binary + 1, None) ELSE D.irep_map
    IN IF At(im, num_binary).some
       THEN Panic([D EXCEPT !.irep_map = im], "irep number already mapped")
       ELSE Ok([D EXCEPT !.irep_map = [im EXCEPT ![num_binary + 1] = Some(num)]], TRUE)

read_u8(D) ==
    LET b == bytes_next(D)
    IN IF b.r.some THEN Ok(b.d, b.r.v) ELSE Err(b.d, "unexpected end of input")

\* (x << shift) on a usize: the bits shifted past the width are lost
Shl(x, shift) == (x * Pow2(shift)) % Pow2(UsizeBits)

\* x | y on naturals
RECURSIVE BitOr(_, _)
BitOr(x, y) ==
    IF x = 0 THEN y
    ELSE IF y = 0 THEN x
    ELSE (IF x % 2 = 1 \/ y % 2 = 1 THEN 1 ELSE 0) + 2 * BitOr(x \div 2, y \div 2)

\* Mutant of max_shift: the width in bytes instead of bits
max_shift_in_bytes == UsizeBits \div 8

\* Mutant of max_shift: a limit no encoding reaches (no overflow guard)
max_shift_unchecked == UsizeBits * 100

\* size_of::<usize>() * size_of::<u8>() * 8
max_shift == UsizeBits

\* The loop of read_usize_varenc
RECURSIVE read_usize_loop(_, _, _)
read_usize_loop(D, result, shift) ==
    LET b == bytes_next(D)
    IN IF ~b.r.some THEN Err(b.d, "unexpected end of input")
       ELSE IF shift >= max_shift
            THEN Err(b.d, "serialized value is too large to fit in usize")
       ELSE LET u       == b.r.v
                result1 == BitOr(result, Shl(u % 128, shift))
                shift1  == shift + 7
            IN IF u \div 128 = 0 THEN Ok(b.d, result1)
               ELSE read_usize_loop(b.d, result1, shift1)

read_usize_varenc(D) == read_usize_loop(D, 0, 0)

IsCont(b) == b \in 128..191

\* String::from_utf8: Some(chars) for well-formed UTF-8, None otherwise
RECURSIVE from_utf8(_)
from_utf8(b) ==
    IF b = <<>> THEN Some(<<>>)
    ELSE LET b1 == b[1]
             n  == IF b1 < 128 THEN 1
                   ELSE IF b1 \in 194..223 /\ Len(b) >= 2 /\ IsCont(b[2]) THEN 2
                   ELSE IF b1 \in 224..239 /\ Len(b) >= 3 /\ IsCont(b[2]) /\ IsCont(b[3])
                           /\ (b1 = 224 => b[2] >= 160) /\ (b1 = 237 => b[2] <= 159) THEN 3
                   ELSE IF b1 \in 240..244 /\ Len(b) >= 4
                           /\ IsCont(b[2]) /\ IsCont(b[3]) /\ IsCont(b[4])
                           /\ (b1 = 240 => b[2] >= 144) /\ (b1 = 244 => b[2] <= 143) THEN 4
                   ELSE 0
             c  == CASE n = 1 -> b1
                     [] n = 2 -> (b1 - 192) * 64 + (b[2] - 128)
                     [] n = 3 -> (b1 - 224) * 4096 + (b[2] - 128) * 64 + (b[3] - 128)
                     [] n = 4 -> (b1 - 240) * 262144 + (b[2] - 128) * 4096
                                   + (b[3] - 128) * 64 + (b[4] - 128)
                     [] OTHER -> 0
         IN IF n = 0 THEN None
            ELSE LET rest == from_utf8(SubSeq(b, n + 1, Len(b)))
                 IN IF rest.some THEN Some(<<c>> \o rest.v) ELSE None

\* The loop reading a raw string in read_numbered_string_ref
RECURSIVE read_string_loop(_, _, _)
read_string_loop(D, string_number, string_buf) ==
    LET b == bytes_next(D)
    IN IF ~b.r.some THEN Err(b.d, "unexpected end of input")
       ELSE IF b.r.v = 0
            THEN LET str == from_utf8(string_buf)
                 IN IF str.some
                    THEN LET numbered == number_string(b.d.numbering, str.v)
                             m == add_string_mapping([b.d EXCEPT !.numbering = numbered.n],
                                                     string_number, numbered.r.number)
                         IN IF m.tag = "Ok" THEN Ok(m.d, numbered.r) ELSE m
                    ELSE Err(b.d, "invalid utf-8")
       ELSE IF b.r.v = ChBackslash
            THEN LET c == bytes_next(b.d)
                 IN IF c.r.some THEN read_string_loop(c.d, string_number, Append(string_buf, c.r.v))
                    ELSE Err(c.d, "unexpected end of input")
       ELSE read_string_loop(b.d, string_number, Append(string_buf, b.r.v))

read_numbered_string_ref(D) ==
    LET n == read_usize_varenc(D)
    IN IF n.tag # "Ok" THEN n
       ELSE LET string_number == n.r
                f == is_first_read_string(n.d, string_number)
            IN IF f.r THEN read_string_loop(f.d, string_number, <<>>)
               ELSE LET m == VecGet(f.d.string_map, string_number)
                    IN IF ~m.some THEN Panic(f.d, "index out of bounds")
                       ELSE IF ~m.v.some THEN Panic(f.d, "unwrap on None")
                       ELSE LET s == numbered_string_from_number(f.d.numbering, m.v.v)
                            IN IF s.some THEN Ok(f.d, s.v) ELSE Panic(f.d, "unwrap on None")

\* Mutant of incorrect_binary_structure: the node ends at the 'S'
incorrect_binary_structure_accepted(D) == Ok(D, [number |-> 0, start_index |-> 0])

\* if sub_done { return Err(...) } in the arm b'S' of read_numbered_irep_ref
incorrect_binary_structure(D) == Err(D, "incorrect binary structure")

\* Mutant of unexpected_character: the byte is taken as the end of the node
unexpected_character_accepted(D, other) == Ok(D, [number |-> 0, start_index |-> 0])

\* other => return Err(...) in the match of read_numbered_irep_ref
unexpected_character(D, other) == Err(D, "unexpected character in input stream")

RECURSIVE read_numbered_irep_ref(_), read_irep_loop(_, _, _, _, _, _)

\* The loop reading subs and named subs until the 0 terminator
read_irep_loop(D, irep_number, id_number, sub_done, subs, named_subs) ==
    LET u == read_u8(D)
        c == IF u.tag # "Ok" THEN u
             ELSE [u EXCEPT !.d.tags =
                      Append(@, [number |-> irep_number, byte |-> u.r,
                                 nodes |-> Len(u.d.numbering.inv_cache.index)])]
    IN IF c.tag # "Ok" THEN c
       ELSE IF c.r = 83
            THEN IF sub_done THEN incorrect_binary_structure(c.d)
                 ELSE LET decoded_sub == read_numbered_irep_ref(c.d)
                      IN IF decoded_sub.tag # "Ok" THEN decoded_sub
                         ELSE read_irep_loop(decoded_sub.d, irep_number, id_number, sub_done,
                                             Append(subs, decoded_sub.r.number), named_subs)
       ELSE IF c.r = 78
            THEN LET decoded_name == read_numbered_string_ref(c.d)
                 IN IF decoded_name.tag # "Ok" THEN decoded_name
                    ELSE LET decoded_sub == read_numbered_irep_ref(decoded_name.d)
                         IN IF decoded_sub.tag # "Ok" THEN decoded_sub
                            ELSE read_irep_loop(decoded_sub.d, irep_number, id_number, TRUE, subs,
                                     Append(named_subs, <<decoded_name.r.number,
                                                          decoded_sub.r.number>>))
       ELSE IF c.r = 0
            THEN LET key == IrepKey_new(id_number, subs, named_subs)
                     numbered == get_or_insert(c.d.numbering, key)
                     m == add_irep_mapping([c.d EXCEPT !.numbering = numbered.n],
                                           irep_number, numbered.r.number)
                 IN IF m.tag = "Ok" THEN Ok(m.d, numbered.r) ELSE m
       ELSE unexpected_character(c.d, c.r)

read_numbered_irep_ref(D) ==
    LET n == read_usize_varenc(D)
    IN IF n.tag # "Ok" THEN n
       ELSE LET irep_number == n.r
                f == is_first_read_irep(n.d, irep_number)
            IN IF f.r
               THEN LET idr == read_numbered_string_ref(f.d)
                    IN IF idr.tag # "Ok" THEN idr
                       ELSE read_irep_loop(idr.d, irep_number, idr.r.number, FALSE, <<>>, <<>>)
               ELSE LET m == VecGet(f.d.irep_map, irep_number)
                    IN IF ~m.some THEN Panic(f.d, "index out of bounds")
                       ELSE IF ~m.v.some THEN Panic(f.d, "unwrap on None")
                       ELSE LET i == numbered_irep_from_number(f.d.numbering, m.v.v)
                            IN IF i.some THEN Ok(f.d, i.v) ELSE Panic(f.d, "unwrap on None")


----------------------------------------------------------------------------
(* Symbols and files.  A Symbol is a record of three ireps (typ, value,    *)
(* location), five strings and the boolean flags; a SymbolTable is the     *)
(* sequence of its symbols in the iteration order of symbol_table.values() *)

b2n(b) == IF b THEN 1 ELSE 0

\* flags = (flags << 1) | bit, for each bit of the sequence in turn
RECURSIVE pack_flags(_, _)
pack_flags(flags, bits) ==
    IF bits = <<>> THEN flags
    ELSE pack_flags(BitOr(Shl(flags, 1), b2n(Head(bits))), Tail(bits))

\* Mutant of symbol_flags: is_extern and is_volatile are packed in the
\* opposite order
symbol_flags_swapped(symbol) ==
    pack_flags(0, <<symbol.is_weak, symbol.is_type, symbol.is_property, symbol.is_macro,
                    symbol.is_exported, symbol.is_input, symbol.is_output,
                    symbol.is_state_var, symbol.is_parameter, symbol.is_auxiliary,
                    FALSE, symbol.is_lvalue, symbol.is_static_lifetime,
                    symbol.is_thread_local, symbol.is_file_local,
                    symbol.is_volatile, symbol.is_extern>>)

\* The flag word built in write_symbol
symbol_flags(symbol) ==
    pack_flags(0, <<symbol.is_weak, symbol.is_type, symbol.is_property, symbol.is_macro,
                    symbol.is_exported, symbol.is_input, symbol.is_output,
                    symbol.is_state_var, symbol.is_parameter, symbol.is_auxiliary,
                    FALSE, symbol.is_lvalue, symbol.is_static_lifetime,
                    symbol.is_thread_local, symbol.is_file_local,
                    symbol.is_extern, symbol.is_volatile>>)

\* One statement of a writer method: a call on the serializer followed by `?`
write_step(S, step) ==
    CASE step.call = "write_irep_ref" -> write_irep_ref(S, step.arg)
      [] step.call = "write_string_ref" -> write_string_ref(S, step.arg)
      [] step.call = "write_u8" -> write_u8(S, step.arg)
      [] step.call = "write_usize_varenc" -> write_usize_varenc(S, step.arg)
      [] step.call = "flush" -> flush(S)

\* The statements of a method one after the other.  The state after each
\* statement is bound as the element of a singleton set, so that it is
\* computed once however often the next statement reads it.
RECURSIVE write_steps(_, _)
write_steps(S, steps) ==
    IF steps = <<>> THEN S
    ELSE CHOOSE Sn \in {write_steps(S1, Tail(steps)) : S1 \in {write_step(S, Head(steps))}} :
             TRUE

write_symbol(S, symbol) ==
    write_steps(S, <<[call |-> "write_irep_ref", arg |-> symbol.typ],
                     [call |-> "write_irep_ref", arg |-> symbol.value],
                     [call |-> "write_irep_ref", arg |-> symbol.location],
                     [call |-> "write_string_ref", arg |-> symbol.name],
                     [call |-> "write_string_ref", arg |-> symbol.module],
                     [call |-> "write_string_ref", arg |-> symbol.base_name],
                     [call |-> "write_string_ref", arg |-> symbol.mode],
                     [call |-> "write_string_ref", arg |-> symbol.pretty_name],
                     [call |-> "write_u8", arg |-> 0],
                     [call |-> "write_usize_varenc", arg |-> symbol_flags(symbol)],
                     [call |-> "flush"]>>)

\* for symbol in symbol_table.symbol_table.values() { write_symbol(symbol)?; }
RECURSIVE write_symbols(_, _)
write_symbols(S, symbols) ==
    IF symbols = <<>> THEN S
    ELSE CHOOSE Sn \in {write_symbols(S1, Tail(symbols)) :
                           S1 \in {write_symbol(S, Head(symbols))}} : TRUE

write_symbol_table(S, symbol_table) ==
    CHOOSE Sn \in {flush(S2) : S2 \in {write_symbols(S1, symbol_table) :
                      S1 \in {write_usize_varenc(S, Len(symbol_table))}}} : TRUE

\* Mutant of write_function_map: nothing is written for the function map
write_function_map_skipped(S) == flush(S)

write_function_map(S) == flush(write_usize_varenc(S, 0))

write_header(S) ==
    flush(write_usize_varenc(write_u8(write_u8(write_u8(write_u8(S, 127), 71), 66), 70), 5))

write_file(S, symbol_table) ==
    CHOOSE Sn \in {flush(S3) : S3 \in {write_function_map(S2) :
                      S2 \in {write_symbol_table(S1, symbol_table) :
                                 S1 \in {write_header(S)}}}} : TRUE

\* Self::expect(found, expected)
expect(D, found, expected) ==
    IF found # expected THEN Err(D, "expected value not found in byte stream")
    ELSE Ok(D, found)

\* The reads of the irep and string attributes of a symbol, one after the
\* other, each followed by `?`.  The result of each read is bound as the
\* element of a singleton set, so that it is computed once.
RECURSIVE read_attributes(_, _)
read_attributes(D, kinds) ==
    IF kinds = <<>> THEN Ok(D, TRUE)
    ELSE CHOOSE r \in {IF res.tag # "Ok" THEN res ELSE read_attributes(res.d, Tail(kinds)) :
                          res \in {IF Head(kinds) = "irep" THEN read_numbered_irep_ref(D)
                                   ELSE read_numbered_string_ref(D)}} : TRUE

\* flags >> 16
shifted_flags(flags) == flags \div Pow2(16)

\* The end of read_symbol: the flag word is read and checked
read_symbol_flags(D) ==
    CHOOSE r \in
      {IF flags.tag # "Ok" THEN flags
       ELSE IF shifted_flags(flags.r) # 0
            THEN Err(flags.d, "incorrect binary format: set bits remain in decoded symbol flags")
       ELSE Ok([flags.d EXCEPT !.symbols_read = @ + 1,
                               !.symbol_ends = Append(@, flags.d.pos)], TRUE) :
          flags \in {read_usize_varenc(D)}} : TRUE

\* The middle of read_symbol: the obsolete symordering byte
read_symbol_symordering(D) ==
    CHOOSE r \in
      {IF symordering.tag # "Ok" THEN symordering
       ELSE IF expect(symordering.d, symordering.r, 0).tag # "Ok"
            THEN expect(symordering.d, symordering.r, 0)
       ELSE read_symbol_flags(symordering.d) :
          symordering \in {read_u8(D)}} : TRUE

read_symbol(D) ==
    CHOOSE r \in
      {IF a.tag # "Ok" THEN a ELSE read_symbol_symordering(a.d) :
          a \in {read_attributes(D, <<"irep", "irep", "irep", "string", "string",
                                      "string", "string", "string">>)}} : TRUE

\* for _ in 0..symbol_table_len { self.read_symbol()?; }
RECURSIVE read_symbols(_, _)
read_symbols(D, n) ==
    IF n = 0 THEN Ok(D, TRUE)
    ELSE CHOOSE r \in {IF res.tag # "Ok" THEN res ELSE read_symbols(res.d, n - 1) :
                          res \in {read_symbol(D)}} : TRUE

read_symbol_table(D) ==
    CHOOSE r \in {IF symbol_table_len.tag # "Ok" THEN symbol_table_len
                  ELSE read_symbols(symbol_table_len.d, symbol_table_len.r) :
                     symbol_table_len \in {read_usize_varenc(D)}} : TRUE

read_function_map(D) ==
    CHOOSE r \in
      {IF goto_function_len.tag # "Ok" THEN goto_function_len
       ELSE IF expect(goto_function_len.d, goto_function_len.r, 0).tag # "Ok"
            THEN expect(goto_function_len.d, goto_function_len.r, 0)
       ELSE Ok(goto_function_len.d, TRUE) :
          goto_function_len \in {read_usize_varenc(D)}} : TRUE

\* Self::expect(self.read_u8().unwrap(), byte)? for each byte of the magic
RECURSIVE read_magic(_, _)
read_magic(D, magic) ==
    IF magic = <<>> THEN Ok(D, TRUE)
    ELSE CHOOSE r \in
           {IF u.tag # "Ok" THEN Panic(u.d, "called unwrap on an Err value")
            ELSE IF expect(u.d, u.r, Head(magic)).tag # "Ok"
                 THEN expect(u.d, u.r, Head(magic))
            ELSE read_magic(u.d, Tail(magic)) :
               u \in {read_u8(D)}} : TRUE

\* The end of read_header: the version is read and checked
read_version(D) ==
    CHOOSE r \in
      {IF goto_binary_version.tag # "Ok" THEN goto_binary_version
       ELSE IF goto_binary_version.r # 5
            THEN Err(goto_binary_version.d, "unsupported GOTO binary version")
       ELSE Ok(goto_binary_version.d, TRUE) :
          goto_binary_version \in {read_usize_varenc(D)}} : TRUE

read_header(D) ==
    CHOOSE r \in {IF m.tag # "Ok" THEN m ELSE read_version(m.d) :
                     m \in {read_magic(D, <<127, 71, 66, 70>>)}} : TRUE

\* The end of read_file: the function map
read_file_function_map(D) ==
    CHOOSE r \in {IF f.tag # "Ok" THEN f ELSE Ok(f.d, TRUE) :
                     f \in {read_function_map(D)}} : TRUE

\* The middle of read_file: the symbol table
read_file_symbol_table(D) ==
    CHOOSE r \in {IF t.tag # "Ok" THEN t ELSE read_file_function_map(t.d) :
                     t \in {read_symbol_table(D)}} : TRUE

read_file(D) ==
    CHOOSE r \in {IF h.tag # "Ok" THEN h ELSE read_file_symbol_table(h.d) :
                     h \in {read_header(D)}} : TRUE

----------------------------------------------------------------------------
(* Inputs: the strings and ireps a caller hands to the engine and to the   *)
(* serializer                                                              *)

Irep(i, s, n) == [id |-> i, sub |-> s, named_sub |-> n]

\* Irep::just_string_id
Leaf(i) == Irep(i, <<>>, <<>>)

StrA == <<97>>    \* "a"
StrB == <<98>>    \* "b"
StrNul == <<0>>   \* "\0", the string holding the one character U+0000

La == Leaf(StrA)
Lb == Leaf(StrB)
Ln == Leaf(StrNul)
AndAB == Irep(StrA, <<La, Lb>>, <<>>)

\* Strings written as references in a session
StringPool == {StrA, StrB, StrNul}

\* Ireps written as references in a session: leaves, both orders of two
\* children, a repeated child, named children, shared subtrees two levels
\* deep, and ids / keys holding the NUL character
IrepPool ==
    {La, Lb, Ln,
     AndAB,
     Irep(StrA, <<Lb, La>>, <<>>),
     Irep(StrA, <<La, La>>, <<>>),
     Irep(StrB, <<>>, << <<StrB, La>> >>),
     Irep(StrA, <<Lb>>, << <<StrA, La>>, <<StrB, Lb>> >>),
     Irep(StrB, <<AndAB, AndAB>>, << <<StrA, AndAB>> >>),
     Irep(StrA, <<Irep(StrB, <<La>>, <<>>)>>, <<>>),
     Irep(StrA, <<Ln>>, <<>>),
     Irep(StrA, <<>>, << <<StrNul, La>> >>)}

\* Ireps numbered in an engine session: every way two ireps can differ
EngineIds == {StrA, StrB}
EngineLeaves == {Leaf(i) : i \in EngineIds}
EngineSubs ==
    {<<>>} \cup {<<x>> : x \in EngineLeaves} \cup {<<La, Lb>>, <<Lb, La>>, <<La, La>>}
EngineNamedSubs ==
    {<<>>} \cup {<< <<k, x>> >> : k \in EngineIds, x \in EngineLeaves}
           \cup {<< <<StrA, La>>, <<StrB, Lb>> >>, << <<StrB, Lb>>, <<StrA, La>> >>,
                 << <<StrA, La>>, <<StrA, La>> >>}
EnginePool ==
    {Irep(i, s, <<>>) : i \in EngineIds, s \in EngineSubs}
    \cup {Irep(StrA, <<>>, n) : n \in EngineNamedSubs}
    \cup {Irep(StrA, <<La>>, << <<StrA, La>> >>),
          Irep(StrA, <<AndAB, Lb>>, <<>>),
          Irep(StrA, <<Lb, AndAB>>, <<>>),
          Irep(StrB, <<>>, << <<StrA, AndAB>> >>),
          Irep(StrA, <<Lb>>, << <<StrB, La>> >>),
          Irep(StrNul, <<>>, << <<StrA, Lb>> >>)}

\* The tree below a NumberedIrep, read back through the accessors
RECURSIVE Expand(_, _)
Expand(N, numbered_irep) ==
    Irep(id(N, numbered_irep).string,
         [i \in 1..nof_sub(N, numbered_irep) |-> Expand(N, sub(N, numbered_irep, i - 1))],
         [j \in 1..nof_named_sub(N, numbered_irep) |->
             <<named_sub(N, numbered_irep, j - 1)[1].string,
               Expand(N, named_sub(N, numbered_irep, j - 1)[2])>>])

----------------------------------------------------------------------------
(* The state machine                                                       *)

NoCall == [op |-> "none"]

Init ==
    /\ ser = GotoBinarySerializer_new
    /\ de = GotoBinaryDeserializer_new(<<>>)
    /\ phase = "write"
    /\ written = <<>>
    /\ readres = <<>>
    /\ last = NoCall

Record(op, val, S, S1) ==
    [op |-> op, val |-> val, from |-> Emitted(S), to |-> Emitted(S1)]

\* serializer.write_irep_ref(irep)
WriteIrepRef(irep) ==
    /\ phase = "write"
    /\ Len(written) < MaxWrites
    /\ ser' = write_irep_ref(ser, irep)
    /\ written' = Append(written, Record("write_irep_ref", irep, ser, ser'))
    /\ last' = [op |-> "write_irep_ref", arg |-> irep, pre |-> ser]
    /\ UNCHANGED <<de, phase, readres>>

\* serializer.write_string_ref(str)
WriteStringRef(str) ==
    /\ phase = "write"
    /\ Len(written) < MaxWrites
    /\ ser' = write_string_ref(ser, str)
    /\ written' = Append(written, Record("write_string_ref", str, ser, ser'))
    /\ last' = [op |-> "write_string_ref", arg |-> str, pre |-> ser]
    /\ UNCHANGED <<de, phase, readres>>

\* GotoBinaryDeserializer::new(Cursor::new(vec)) on the bytes written
NewDeserializer ==
    /\ phase = "write"
    /\ written # <<>>
    /\ phase' = "read"
    /\ de' = GotoBinaryDeserializer_new(ser.writer)
    /\ last' = [op |-> "new"]
    /\ UNCHANGED <<ser, written, readres>>

\* The reads mirror the writes, and stop at the first failure; on bytes no
\* serializer wrote, up to MaxReads reads of either kind are made
CanRead(op) ==
    /\ (readres # <<>> => readres[Len(readres)].tag = "Ok")
    /\ \/ /\ phase = "read"
          /\ Len(readres) < Len(written)
          /\ written[Len(readres) + 1].op = op
       \/ /\ phase = "raw"
          /\ Len(readres) < MaxReads

ReadResult(res, D) == [tag |-> res.tag, r |-> res.r, from |-> D.pos, to |-> res.d.pos]

\* deserializer.read_numbered_irep_ref()
ReadIrepRef ==
    /\ CanRead("write_irep_ref")
    /\ LET res == read_numbered_irep_ref(de)
       IN /\ de' = res.d
          /\ readres' = Append(readres, ReadResult(res, de))
    /\ last' = [op |-> "read_numbered_irep_ref", pre |-> de]
    /\ UNCHANGED <<ser, phase, written>>

\* deserializer.read_numbered_string_ref()
ReadStringRef ==
    /\ CanRead("write_string_ref")
    /\ LET res == read_numbered_string_ref(de)
       IN /\ de' = res.d
          /\ readres' = Append(readres, ReadResult(res, de))
    /\ last' = [op |-> "read_numbered_string_ref", pre |-> de]
    /\ UNCHANGED <<ser, phase, written>>

Next ==
    \/ \E irep \in IrepPool : WriteIrepRef(irep)
    \/ \E str \in StringPool : WriteStringRef(str)
    \/ NewDeserializer
    \/ ReadIrepRef
    \/ ReadStringRef

Spec == Init /\ [][Next]_vars


----------------------------------------------------------------------------
(* Engine sessions: an IrepNumbering used on its own (the serializer's)    *)

EngineStrings == {StrA, StrB, StrNul}

\* numbering.number_irep(irep)
NumberIrep(irep) ==
    /\ phase = "write"
    /\ Len(written) < MaxWrites
    /\ LET res == number_irep(ser.numbering, irep)
       IN /\ ser' = [ser EXCEPT !.numbering = res.n]
          /\ written' = Append(written, [op |-> "number_irep", val |-> irep, r |-> res.r])
    /\ last' = [op |-> "number_irep", arg |-> irep, pre |-> ser]
    /\ UNCHANGED <<de, phase, readres>>

\* numbering.number_string(str)
NumberString(str) ==
    /\ phase = "write"
    /\ Len(written) < MaxWrites
    /\ LET res == number_string(ser.numbering, str)
       IN /\ ser' = [ser EXCEPT !.numbering = res.n]
          /\ written' = Append(written, [op |-> "number_string", val |-> str, r |-> res.r])
    /\ last' = [op |-> "number_string", arg |-> str, pre |-> ser]
    /\ UNCHANGED <<de, phase, readres>>

NextEngine ==
    \/ \E irep \in EnginePool : NumberIrep(irep)
    \/ \E str \in EngineStrings : NumberString(str)

SpecEngine == Init /\ [][NextEngine]_vars

----------------------------------------------------------------------------
(* Varint sessions: values written back to back, then read back; or a raw  *)
(* byte sequence handed to a fresh deserializer                            *)

\* Values around the group boundaries, and the largest usize
VarintPool == {0, 1, 127, 128, 300, 16384, UsizeMax}

\* Every value below MaxDense, and the values next to each power of two up
\* to the largest usize
VarintFirst ==
    (0..(MaxDense - 1))
    \cup {x \in UNION {{Pow2(k) - 1, Pow2(k), Pow2(k) + 1} : k \in 0..UsizeBits} :
              x <= UsizeMax}

\* The first value of a session, and the boundary values after it
VarintChoices == IF written = <<>> THEN VarintFirst ELSE VarintPool

BytePool == {0, 1, 2, 127, 128, 172, 255}

RECURSIVE SeqsUpTo(_, _)
SeqsUpTo(S, n) ==
    IF n = 0 THEN {<<>>}
    ELSE LET shorter == SeqsUpTo(S, n - 1)
         IN shorter \cup {Append(q, x) : q \in {t \in shorter : Len(t) = n - 1}, x \in S}

RawInputs == SeqsUpTo(BytePool, MaxInputLen)

\* serializer.write_usize_varenc(u)
WriteUsize(u) ==
    /\ phase = "write"
    /\ Len(written) < MaxVarints
    /\ ser' = write_usize_varenc(ser, u)
    /\ written' = Append(written, Record("write_usize_varenc", u, ser, ser'))
    /\ last' = [op |-> "write_usize_varenc", arg |-> u, pre |-> ser]
    /\ UNCHANGED <<de, phase, readres>>

\* serializer.flush(); GotoBinaryDeserializer::new(Cursor::new(vec))
FlushAndNewDeserializer ==
    /\ phase = "write"
    /\ written # <<>>
    /\ ser' = flush(ser)
    /\ de' = GotoBinaryDeserializer_new(ser'.writer)
    /\ phase' = "read"
    /\ last' = [op |-> "new"]
    /\ UNCHANGED <<written, readres>>

\* GotoBinaryDeserializer::new(Cursor::new(bytes)) on bytes no serializer wrote
NewDeserializerOn(bytes) ==
    /\ phase = "write"
    /\ written = <<>>
    /\ de' = GotoBinaryDeserializer_new(bytes)
    /\ phase' = "raw"
    /\ last' = [op |-> "new"]
    /\ UNCHANGED <<ser, written, readres>>

\* deserializer.read_usize_varenc(), until the first failure
ReadUsize ==
    /\ phase \in {"read", "raw"}
    /\ Len(readres) <= MaxVarints
    /\ (readres # <<>> => readres[Len(readres)].tag = "Ok")
    /\ LET res == read_usize_varenc(de)
       IN /\ de' = res.d
          /\ readres' = Append(readres, ReadResult(res, de))
    /\ last' = [op |-> "read_usize_varenc", pre |-> de]
    /\ UNCHANGED <<ser, phase, written>>

NextVarint ==
    \/ \E u \in VarintChoices : WriteUsize(u)
    \/ FlushAndNewDeserializer
    \/ \E bytes \in RawInputs : NewDeserializerOn(bytes)
    \/ ReadUsize

SpecVarint == Init /\ [][NextVarint]_vars

----------------------------------------------------------------------------
(* Stream sessions: the sessions of Spec, and sessions where references    *)
(* are read from a byte stream that no serializer wrote                    *)

\* The numbers 0 and 1 (also the terminator), 'N', 'S', and 'a' (a character
\* of a string, and a byte that is no tag)
StreamBytes == {0, 1, 78, 83, 97}

\* Longer streams: a node with a positional child and one with a named
\* child, under stream numbers that differ from the engine's, read twice;
\* two definitions of one number; a child that refers to its parent; an
\* unknown tag after a complete child
LongStreams ==
    {<<1, 1, 97, 0, 83, 0, 1, 0, 0, 1>>,
     <<1, 1, 97, 0, 78, 1, 0, 1, 0, 0, 1>>,
     <<0, 0, 0, 83, 1, 0, 0, 0, 1>>,
     <<1, 0, 0, 83, 0, 0, 83, 1, 0, 0>>,
     <<1, 0, 0, 83, 0, 0, 0, 97, 0>>,
     <<1, 0, 0, 78, 0, 0, 0, 0, 83, 0>>,
     <<97, 0, 0, 83, 1, 0, 0, 0, 0, 0, 0>>}

StreamPool == SeqsUpTo(StreamBytes, MaxStreamLen) \cup LongStreams

\* A stream is handed to a deserializer at the start of a session only
StreamChoices == IF phase = "write" /\ written = <<>> THEN StreamPool ELSE {}

NextStream ==
    \/ Next
    \/ \E bytes \in StreamChoices : NewDeserializerOn(bytes)

SpecStream == Init /\ [][NextStream]_vars



----------------------------------------------------------------------------
(* Properties                                                              *)

\* Offset just past the first byte with a clear continuation bit at or after
\* offset p, or 0 when the input has none
ChainEnd(input, p) ==
    IF \E i \in (p + 1)..Len(input) : input[i] < 128
    THEN CHOOSE i \in (p + 1)..Len(input) :
             /\ input[i] < 128
             /\ \A j \in (p + 1)..(i - 1) : input[j] >= 128
    ELSE 0

\* The unbounded integer that the 7-bit groups input[p+1..e] encode
RECURSIVE EncodedValue(_, _, _)
EncodedValue(input, p, e) ==
    IF e <= p THEN 0
    ELSE (input[p + 1] % 128) + 128 * EncodedValue(input, p + 1, e)

\* Everything handed to the serializer output so far
Out == ser.writer \o ser.buf

\* The bytes between two output offsets
Segment(from, to) == SubSeq(Out, from + 1, to)

\* The session made only calls of this kind
OnlyCalls(op) == \A k \in 1..Len(written) : written[k].op = op

\* C1: round trip of node references.  In a session that only wrote ireps
\* with write_irep_ref, every read made so far with read_numbered_irep_ref
\* succeeded and the k-th node read, expanded through the reader's engine,
\* is the k-th irep written.
C1_RoundTrip ==
    OnlyCalls("write_irep_ref") =>
        \A k \in 1..Len(readres) :
            /\ readres[k].tag = "Ok"
            /\ Expand(de.numbering, readres[k].r) = written[k].val

\* C2: equality is preserved across the stream.  In a session that only
\* wrote ireps, the j-th and k-th references read are the same NumberedIrep
\* exactly when the j-th and k-th ireps written are structurally identical.
C2_EqualityPreserved ==
    OnlyCalls("write_irep_ref") =>
        \A j, k \in 1..Len(readres) :
            (readres[j].tag = "Ok" /\ readres[k].tag = "Ok") =>
                ((readres[j].r = readres[k].r) <=> (written[j].val = written[k].val))


\* The <<irep, NumberedIrep>> pairs of an irep numbered as r and of all its
\* subtrees, walking the irep and the packed key of r together
RECURSIVE Numbered(_, _, _)
Numbered(N, irep, r) ==
    {<<irep, r>>}
    \cup UNION {Numbered(N, irep.sub[i], sub(N, r, i - 1)) : i \in 1..Len(irep.sub)}
    \cup UNION {Numbered(N, irep.named_sub[j][2], named_sub(N, r, j - 1)[2]) :
                    j \in 1..Len(irep.named_sub)}

\* Every irep numbered so far in the engine session, nested ones included
AllNumbered ==
    UNION {Numbered(ser.numbering, written[k].val, written[k].r) :
               k \in {i \in 1..Len(written) : written[i].op = "number_irep"}}

\* C3: content addressing, same structure.  Two structurally identical
\* ireps numbered in one engine (at top level or as subtrees, whatever was
\* numbered in between) have the same NumberedIrep.
C3_SameStructureSameNumber ==
    /\ \A j, k \in 1..Len(written) :
           (written[j].op = "number_irep" /\ written[k].op = "number_irep"
              /\ written[j].val = written[k].val) => written[j].r = written[k].r
    /\ \A p, q \in AllNumbered : p[1] = q[1] => p[2] = q[2]

\* A tree numbered, another tree numbered in between, and the first tree
\* numbered again with the same result
C3_Witness ==
    /\ Len(written) = 3
    /\ written[1].op = "number_irep" /\ written[2].op = "number_irep"
    /\ written[3].op = "number_irep"
    /\ written[1].val = Irep(StrA, <<AndAB, Lb>>, <<>>)
    /\ written[2].val = Irep(StrA, <<Lb, AndAB>>, <<>>)
    /\ written[3].val = written[1].val
    /\ written[3].r = written[1].r
    /\ written[2].r # written[1].r

\* C4: content addressing, different structure.  Two ireps numbered in one
\* engine (at top level or as subtrees) that are not structurally identical
\* have different numbers.
C4_DifferentStructureDifferentNumber ==
    \A p, q \in AllNumbered : p[1] # q[1] => p[2].number # q[2].number

\* Children [X, Y] and [Y, X] under the same id, then the same named
\* children in both orders: four different numbers
C4_Witness ==
    /\ Len(written) = 3
    /\ written[1].op = "number_irep" /\ written[1].val = AndAB
    /\ written[2].op = "number_irep" /\ written[2].val = Irep(StrA, <<Lb, La>>, <<>>)
    /\ written[3].op = "number_irep"
    /\ written[3].val = Irep(StrA, <<>>, << <<StrB, Lb>>, <<StrA, La>> >>)
    /\ written[1].r.number # written[2].r.number
    /\ written[3].r.number \notin {written[1].r.number, written[2].r.number}

\* The strings of an irep: its id, the keys of its named children, and the
\* strings of its children
RECURSIVE StringsOf(_)
StringsOf(irep) ==
    {irep.id}
    \cup UNION {StringsOf(irep.sub[i]) : i \in 1..Len(irep.sub)}
    \cup UNION {{irep.named_sub[j][1]} \cup StringsOf(irep.named_sub[j][2]) :
                    j \in 1..Len(irep.named_sub)}

\* The strings handed to the engine by the first n calls of the session
StringsSeen(n) ==
    UNION {IF written[k].op = "number_string" THEN {written[k].val}
           ELSE StringsOf(written[k].val) : k \in 1..n}

\* C5: atom numbering.  number_string gives two strings the same number
\* iff they are equal; a string not seen before gets the next unused number
\* (the count of distinct strings seen so far) and adds one entry; a known
\* string gets its original number and the engine is left unchanged.
C5_AtomNumbering ==
    /\ \A k \in 1..Len(written) :
           written[k].op = "number_string" =>
               /\ written[k].r.string = written[k].val
               /\ (written[k].val \notin StringsSeen(k - 1)
                     => written[k].r.number = Cardinality(StringsSeen(k - 1)))
    /\ \A j, k \in 1..Len(written) :
           (written[j].op = "number_string" /\ written[k].op = "number_string") =>
               ((written[j].val = written[k].val)
                    <=> (written[j].r.number = written[k].r.number))
    /\ \A i \in 1..Len(ser.numbering.inv_string_cache) :
           ser.numbering.inv_string_cache[i].number = i - 1
    /\ Len(ser.numbering.inv_string_cache) = Cardinality(StringsSeen(Len(written)))
    /\ {ser.numbering.inv_string_cache[i].string :
            i \in 1..Len(ser.numbering.inv_string_cache)} = StringsSeen(Len(written))
    /\ last.op = "number_string" =>
           IF last.arg \in StringsSeen(Len(written) - 1)
           THEN ser.numbering = last.pre.numbering
           ELSE Len(ser.numbering.inv_string_cache)
                    = Len(last.pre.numbering.inv_string_cache) + 1

\* A new string numbered after an irep, then a known string numbered again
C5_Witness ==
    /\ Len(written) = 3
    /\ written[1].op = "number_irep" /\ written[1].val = AndAB
    /\ written[2].op = "number_string" /\ written[2].val = StrNul
    /\ written[2].r.number = 2
    /\ written[3].op = "number_string" /\ written[3].val = StrB
    /\ written[3].r.number = 1
    /\ ser.numbering = last.pre.numbering


\* Two write-reference calls for the same node number, or the same atom number
SameRef(e, f) == e.kind = f.kind /\ e.number = f.number

\* No call for the same number started earlier in the session
IsFirstWrite(e) ==
    \A i \in 1..Len(ser.trace) : SameRef(e, ser.trace[i]) => e.from <= ser.trace[i].from

\* C6: first-write semantics.  Among all write-reference calls of a session
\* for the same node number (or atom number), nested calls included, the
\* first call emits the varint of the number followed by the contents (which
\* end with the terminator byte 0), and every later call emits exactly the
\* varint of the number; so exactly one call emits the contents.
C6_FirstWrite ==
    /\ \A i \in 1..Len(ser.trace) :
           LET e   == ser.trace[i]
               seg == Segment(e.from, e.to)
               v   == varenc(<<>>, e.number)
           IN IF IsFirstWrite(e)
              THEN /\ Len(seg) > Len(v)
                   /\ SubSeq(seg, 1, Len(v)) = v
                   /\ seg[Len(seg)] = 0
              ELSE seg = v
    /\ \A i \in 1..Len(ser.trace) :
           Cardinality({j \in 1..Len(ser.trace) :
                           /\ SameRef(ser.trace[i], ser.trace[j])
                           /\ ser.trace[j].to - ser.trace[j].from
                                  > Len(varenc(<<>>, ser.trace[j].number))}) = 1

\* A node first written nested in another node's contents, written again in
\* the same contents and once more at top level: one full write, two varints
C6_Witness ==
    /\ Len(written) = 2
    /\ written[1].op = "write_irep_ref"
    /\ written[1].val = Irep(StrB, <<AndAB, AndAB>>, << <<StrA, AndAB>> >>)
    /\ written[2].op = "write_irep_ref" /\ written[2].val = AndAB
    /\ LET num == number_irep(ser.numbering, AndAB).r.number
           evs == {i \in 1..Len(ser.trace) :
                      ser.trace[i].kind = "irep" /\ ser.trace[i].number = num}
       IN /\ Cardinality(evs) = 4
          /\ Cardinality({i \in evs : IsFirstWrite(ser.trace[i])}) = 1
          /\ \E i \in evs : /\ IsFirstWrite(ser.trace[i])
                            /\ ser.trace[i].from > written[1].from
                            /\ ser.trace[i].to < written[1].to
          /\ Segment(written[2].from, written[2].to) = varenc(<<>>, num)

\* n copies of a byte sequence
RECURSIVE Copies(_, _)
Copies(s, n) == IF n = 0 THEN <<>> ELSE s \o Copies(s, n - 1)

\* C7: repeated-structure compression.  A write_irep_ref of an irep already
\* written at top level in the session adds exactly the varint of its number
\* to the stream; a session of k writes of one irep produces the bytes of a
\* single write followed by k-1 copies of that varint.
C7_RepeatedWrite ==
    OnlyCalls("write_irep_ref") =>
        /\ \A k \in 1..Len(written) :
               (\E j \in 1..(k - 1) : written[j].val = written[k].val) =>
                   Segment(written[k].from, written[k].to)
                       = varenc(<<>>, number_irep(ser.numbering, written[k].val).r.number)
        /\ (written # <<>> /\ \A k \in 1..Len(written) : written[k].val = written[1].val) =>
               Out = write_irep_ref(GotoBinarySerializer_new, written[1].val).writer
                       \o Copies(varenc(<<>>, number_irep(ser.numbering,
                                                          written[1].val).r.number),
                                 Len(written) - 1)

\* A tree two levels deep written three times: the third write is number 2
\* on one byte, after a first write of more than ten bytes
C7_Witness ==
    /\ Len(written) = 3
    /\ \A k \in 1..3 :
           /\ written[k].op = "write_irep_ref"
           /\ written[k].val = Irep(StrB, <<AndAB, AndAB>>, << <<StrA, AndAB>> >>)
    /\ written[1].to - written[1].from > 10
    /\ Segment(written[2].from, written[2].to) = Segment(written[3].from, written[3].to)
    /\ written[3].to - written[3].from = 1
    /\ Len(Out) = written[1].to + 2

\* C8: varint law.  In a session that wrote values with write_usize_varenc
\* back to back and reads them back with read_usize_varenc, the k-th read
\* succeeds and returns the k-th value written, for every usize value
\* including 0 and the maximum.
C8_VarintRoundTrip ==
    (phase = "read" /\ OnlyCalls("write_usize_varenc")) =>
        \A k \in 1..Len(readres) :
            k <= Len(written) =>
                /\ readres[k].tag = "Ok"
                /\ readres[k].r = written[k].val
                /\ readres[k].from = written[k].from
                /\ readres[k].to = written[k].to

\* The maximum and then 0 written back to back and read back
C8_Witness ==
    /\ phase = "read"
    /\ Len(written) = 2 /\ Len(readres) = 2
    /\ written[1].op = "write_usize_varenc" /\ written[1].val = UsizeMax
    /\ written[2].op = "write_usize_varenc" /\ written[2].val = 0
    /\ readres[1].tag = "Ok" /\ readres[1].r = UsizeMax
    /\ readres[2].tag = "Ok" /\ readres[2].r = 0

\* Number of 7-bit groups a usize holds
MaxGroups == (UsizeBits + 6) \div 7

\* C9: varint wire format.  The bytes write_usize_varenc emits for x are the
\* 7-bit groups of x, least significant first; every byte but the last has
\* the high bit set and the last has it clear; no shorter sequence encodes x
\* (one byte for 0); 300 is encoded as [0xAC, 0x02].
C9_VarintWireFormat ==
    \A k \in 1..Len(written) :
        written[k].op = "write_usize_varenc" =>
            LET x == written[k].val
                b == Segment(written[k].from, written[k].to)
                n == Len(b)
            IN /\ n >= 1
               /\ \A i \in 1..n : b[i] % 128 = (x \div Pow2(7 * (i - 1))) % 128
               /\ \A i \in 1..(n - 1) : b[i] >= 128
               /\ b[n] < 128
               /\ x < Pow2(7 * n)
               /\ (n > 1 => x >= Pow2(7 * (n - 1)))
               /\ (x = 0 => b = <<0>>)
               /\ (x = 300 => b = <<172, 2>>)

\* 300 written after another value: its two bytes are 0xAC, 0x02
C9_Witness ==
    /\ Len(written) = 2
    /\ written[1].op = "write_usize_varenc" /\ written[1].val = UsizeMax
    /\ written[2].op = "write_usize_varenc" /\ written[2].val = 300
    /\ Segment(written[2].from, written[2].to) = <<172, 2>>
    /\ written[1].to - written[1].from = MaxGroups

\* From this offset on, the input ends before a byte with a clear
\* continuation bit
Truncated(input, p) == \A i \in (p + 1)..Len(input) : input[i] >= 128

\* From this offset on, the input has a continuation chain of more bytes
\* than a usize holds groups
Overlong(input, p) ==
    /\ Len(input) > p + MaxGroups
    /\ \A i \in (p + 1)..(p + MaxGroups) : input[i] >= 128

\* C10: varint decoding failures.  A read_usize_varenc made where the input
\* is truncated (it ends before a byte with a clear continuation bit) or
\* overlong (the chain has more bytes than the width holds) returns an
\* error and no value.
C10_VarintDecodeFails ==
    \A k \in 1..Len(readres) :
        (Truncated(de.input, readres[k].from) \/ Overlong(de.input, readres[k].from))
            => readres[k].tag = "Err"

\* A chain of one byte more than a usize holds groups: the read fails on
\* the last byte
C10_Witness ==
    /\ phase = "raw"
    /\ de.input = <<128, 128, 128, 0>>
    /\ Len(readres) = 1
    /\ Overlong(de.input, readres[1].from)
    /\ ~Truncated(de.input, readres[1].from)
    /\ readres[1].tag = "Err"
    /\ readres[1].to = MaxGroups + 1

\* C11: out-of-range varints.  A read_usize_varenc made where the input
\* holds a terminated encoding whose value does not fit in a usize returns
\* an error, never a value.
C11_OutOfRangeFails ==
    \A k \in 1..Len(readres) :
        LET p == readres[k].from
            e == ChainEnd(de.input, p)
        IN (e > 0 /\ EncodedValue(de.input, p, e) > UsizeMax) => readres[k].tag = "Err"

----------------------------------------------------------------------------
(* Atom sessions: strings written as references, then read back            *)

\* Characters of the atoms: NUL, '0', backslash, 'a', and characters whose
\* UTF-8 encodings take two, three and four bytes
AtomChars == {0, ChDigit0, ChBackslash, 97, 233, 8364, 128512}

AtomPool == SeqsUpTo(AtomChars, MaxAtomLen)

NextAtom ==
    \/ \E str \in AtomPool : WriteStringRef(str)
    \/ NewDeserializer
    \/ ReadStringRef

SpecAtom == Init /\ [][NextAtom]_vars

\* The k-th call of the session is the first write of its argument
FirstWriteOf(k) == \A j \in 1..(k - 1) : written[j].val # written[k].val

\* C12: string law.  In a session of write_string_ref calls read back with
\* read_numbered_string_ref, the read of the first write of an atom
\* succeeds, returns an atom with the content written, and leaves the
\* reader exactly after the bytes of that write.
C12_StringLaw ==
    OnlyCalls("write_string_ref") =>
        \A k \in 1..Len(readres) :
            FirstWriteOf(k) =>
                /\ readres[k].tag = "Ok"
                /\ readres[k].r.string = written[k].val
                /\ readres[k].to = written[k].to

\* The UTF-8 bytes of a character
Utf8(c) == IF c = 0 THEN <<0>> ELSE push_until_zero(<<>>, encode_utf8(c))

\* The UTF-8 bytes of a string with 0x00 and 0x5C each prefixed by 0x5C
RECURSIVE EscapedBytes(_)
EscapedBytes(bytes) ==
    IF bytes = <<>> THEN <<>>
    ELSE (IF Head(bytes) \in {0, ChBackslash} THEN <<ChBackslash, Head(bytes)>>
          ELSE <<Head(bytes)>>) \o EscapedBytes(Tail(bytes))

RECURSIVE Utf8String(_)
Utf8String(chars) ==
    IF chars = <<>> THEN <<>> ELSE Utf8(Head(chars)) \o Utf8String(Tail(chars))

\* C13: atom wire format.  The first write of an atom emits the varint of
\* its number, then its UTF-8 bytes in which exactly 0x00 and 0x5C are each
\* prefixed with one 0x5C, then one 0x00 terminator.
C13_AtomWireFormat ==
    OnlyCalls("write_string_ref") =>
        \A k \in 1..Len(written) :
            FirstWriteOf(k) =>
                Segment(written[k].from, written[k].to)
                    = varenc(<<>>, number_string(ser.numbering, written[k].val).r.number)
                        \o EscapedBytes(Utf8String(written[k].val)) \o <<0>>

\* Offset where the write-reference call of this kind and number that
\* started at offset from ended, or -1 when the session made no such call
EventTo(kind, number, from) ==
    LET evs == {i \in 1..Len(ser.trace) :
                   /\ ser.trace[i].kind = kind
                   /\ ser.trace[i].number = number
                   /\ ser.trace[i].from = from}
    IN IF evs = {} THEN -1 ELSE ser.trace[CHOOSE i \in evs : TRUE].to

\* The parts of the contents of a node, in wire order: the tag byte that
\* precedes the reference (0 for none), and the kind and number referred to
NodeParts(N, r) ==
    <<[tag |-> 0, kind |-> "string", number |-> id(N, r).number]>>
    \o [i \in 1..nof_sub(N, r) |->
           [tag |-> 83, kind |-> "irep", number |-> sub(N, r, i - 1).number]]
    \o [i \in 1..(2 * nof_named_sub(N, r)) |->
           IF i % 2 = 1
           THEN [tag |-> 78, kind |-> "string",
                 number |-> named_sub(N, r, (i - 1) \div 2)[1].number]
           ELSE [tag |-> 0, kind |-> "irep",
                 number |-> named_sub(N, r, (i - 1) \div 2)[2].number]]

\* Walk the parts from an output offset: each tag byte is in the output and
\* is followed by a write-reference call for the part; gives the offset
\* after the last part, or -1 when the output does not have this layout
RECURSIVE PartsEnd(_, _)
PartsEnd(parts, pos) ==
    IF parts = <<>> THEN pos
    ELSE LET part  == Head(parts)
             start == IF part.tag = 0 THEN pos ELSE pos + 1
             stop  == EventTo(part.kind, part.number, start)
         IN IF part.tag # 0 /\ (pos + 1 > Len(Out) \/ Out[pos + 1] # part.tag) THEN -1
            ELSE IF stop < 0 THEN -1
            ELSE PartsEnd(Tail(parts), stop)

\* C14: node wire format.  Every reference to a node written in a session
\* (nested ones included) starts with the varint of its number; a repeated
\* reference is that varint only; the first one goes on with a reference to
\* the id atom, then 'S' and a reference for each positional child in
\* order, then 'N', a key atom reference and a value node reference for
\* each named child in order, then one 0x00 byte.
C14_NodeWireFormat ==
    \A i \in 1..Len(ser.trace) :
        LET e == ser.trace[i]
            v == varenc(<<>>, e.number)
            r == numbered_irep_from_number(ser.numbering, e.number).v
            p == PartsEnd(NodeParts(ser.numbering, r), e.from + Len(v))
        IN e.kind = "irep" =>
               /\ SubSeq(Segment(e.from, e.to), 1, Len(v)) = v
               /\ IF IsFirstWrite(e)
                  THEN /\ p >= 0
                       /\ e.to = p + 1
                       /\ Out[e.to] = 0
                  ELSE e.to = e.from + Len(v)

\* A node with one positional and two named children written first: number,
\* id, 'S' and the child in full, 'N' key value twice (the second value is a
\* repeated reference), terminator
C14_Witness ==
    /\ Len(written) = 1
    /\ written[1].op = "write_irep_ref"
    /\ written[1].val = Irep(StrA, <<Lb>>, << <<StrA, La>>, <<StrB, Lb>> >>)
    /\ Out = <<2, 0, 97, 0, 83, 0, 1, 98, 0, 0, 78, 0, 1, 0, 0, 78, 1, 0, 0>>
    /\ Cardinality({i \in 1..Len(ser.trace) :
                       ser.trace[i].kind = "irep" /\ IsFirstWrite(ser.trace[i])}) = 3

----------------------------------------------------------------------------
(* File sessions: a symbol table written with write_file, then read_file   *)
(* on the bytes written, or on those bytes with one field replaced         *)

FlagNames ==
    {"is_volatile", "is_extern", "is_file_local", "is_thread_local",
     "is_static_lifetime", "is_lvalue", "is_auxiliary", "is_parameter",
     "is_state_var", "is_output", "is_input", "is_exported", "is_macro",
     "is_property", "is_type", "is_weak"}

\* A symbol with the given attributes and the flags of the set on
Symbol(typ, value, location, names, on) ==
    [typ |-> typ, value |-> value, location |-> location,
     name |-> names[1], module |-> names[2], base_name |-> names[3],
     mode |-> names[4], pretty_name |-> names[5],
     is_volatile |-> "is_volatile" \in on, is_extern |-> "is_extern" \in on,
     is_file_local |-> "is_file_local" \in on,
     is_thread_local |-> "is_thread_local" \in on,
     is_static_lifetime |-> "is_static_lifetime" \in on,
     is_lvalue |-> "is_lvalue" \in on, is_auxiliary |-> "is_auxiliary" \in on,
     is_parameter |-> "is_parameter" \in on, is_state_var |-> "is_state_var" \in on,
     is_output |-> "is_output" \in on, is_input |-> "is_input" \in on,
     is_exported |-> "is_exported" \in on, is_macro |-> "is_macro" \in on,
     is_property |-> "is_property" \in on, is_type |-> "is_type" \in on,
     is_weak |-> "is_weak" \in on]

\* Five distinct short strings
Names5 == << <<110>>, <<109>>, <<98>>, <<67>>, <<112>> >>

\* One trivial node for the three ireps, five distinct names: with no flag
\* and with each single flag under one name, with all flags but is_weak and
\* with all flags under another
PlainSymbols ==
    {Symbol(La, La, La, Names5, on) : on \in {{}} \cup {{f} : f \in FlagNames}}
    \cup {Symbol(La, La, La, [Names5 EXCEPT ![1] = <<78>>], on) :
              on \in {FlagNames \ {"is_weak"}, FlagNames}}

\* Symbols with shared and nested ireps, repeated names, a name holding the
\* character '0', and a name holding U+0000
RichSymbols ==
    {Symbol(AndAB, Irep(StrB, <<AndAB, AndAB>>, << <<StrA, AndAB>> >>), La,
            <<StrA, StrB, StrA, <<ChDigit0>>, StrB>>, {"is_lvalue", "is_type"}),
     Symbol(Lb, La, Lb, <<StrB, StrA, StrA, StrA, StrNul>>, {})}

SymbolPool == PlainSymbols \cup RichSymbols

\* The table maps each name to one symbol: the symbols that
\* symbol_table.values() yields have pairwise distinct names
DistinctNames(symbols) ==
    \A i, j \in 1..Len(symbols) : symbols[i].name = symbols[j].name => i = j

SymbolTables == {symbols \in SeqsUpTo(SymbolPool, MaxSymbols) : DistinctNames(symbols)}

\* A write-reference call made by write_symbol itself, not nested in the
\* contents of a node
IsTopEvent(e) ==
    \A i \in 1..Len(ser.trace) :
        ~(ser.trace[i].from < e.from /\ e.to <= ser.trace[i].to)

\* Offset where the flag word of the k-th symbol of the file written starts:
\* one placeholder byte after the eighth reference of the symbol
FlagStart(k) == SelectSeq(ser.trace, IsTopEvent)[8 * k].to + 1

\* Number of bytes of the file written up to the end of its k-th symbol
SymbolEnd(k) == ChainEnd(ser.writer, FlagStart(k))

\* Offset where the function map of the file written starts
FunctionMapStart == Len(ser.writer) - 1

\* Headers: each magic byte wrong in turn, all wrong, and the right magic,
\* with versions around 5 in one, two and three bytes
MagicPool ==
    {<<127, 71, 66, 70>>, <<126, 71, 66, 70>>, <<127, 72, 66, 70>>,
     <<127, 71, 98, 70>>, <<127, 71, 66, 0>>, <<0, 103, 98, 102>>}

VersionPool ==
    {<<5>>, <<4>>, <<6>>, <<0>>, <<133, 0>>, <<133, 1>>, <<133, 128, 16>>, <<133>>}

\* Placeholder bytes other than 0
PlaceholderPool == {<<1>>, <<83>>, <<255>>}

\* Flag words: the defined bits, and bits above them
FlagWords ==
    {0, 1, 64, Pow2(15), Pow2(16), Pow2(16) + 1, Pow2(17) - 1, Pow2(17), Pow2(17) + 1,
     UsizeMax}

\* Secondary-table counts in one, two and three bytes
TrailerPool == {<<1>>, <<127>>, <<128, 0>>, <<128, 1>>, <<128, 128, 16>>}

\* The replacements of one field of the file of a table: the bytes between
\* the offsets from and to are replaced by patch
Splices(symbol_table) ==
    {[what |-> "header", k |-> 0, from |-> 0, to |-> 5, patch |-> m \o v] :
         m \in MagicPool, v \in VersionPool}
    \cup UNION {{[what |-> "placeholder", k |-> k,
                  from |-> FlagStart(k) - 1,
                  to |-> FlagStart(k), patch |-> b] : b \in PlaceholderPool}
                \cup {[what |-> "flags", k |-> k,
                       from |-> FlagStart(k),
                       to |-> SymbolEnd(k),
                       patch |-> varenc(<<>>, w)] : w \in FlagWords} :
                k \in 1..Len(symbol_table)}
    \cup {[what |-> "trailer", k |-> 0,
           from |-> FunctionMapStart, to |-> FunctionMapStart + 1, patch |-> t] :
             t \in TrailerPool}
    \cup {[what |-> "prefix", k |-> 0,
           from |-> n, to |-> Len(ser.writer), patch |-> <<>>] :
             n \in 0..(Len(ser.writer) - 1)}

Splice(bytes, sp) == SubSeq(bytes, 1, sp.from) \o sp.patch \o SubSeq(bytes, sp.to + 1, Len(bytes))

\* The replacements that can be made once a file is written
SpliceChoices ==
    IF Len(written) = 1 /\ written[1].op = "write_file" THEN Splices(written[1].val)
    ELSE {}

\* serializer.write_file(symbol_table) on a new serializer
WriteFile(symbol_table) ==
    /\ phase = "write"
    /\ written = <<>>
    /\ ser' = write_file(ser, symbol_table)
    /\ written' = <<Record("write_file", symbol_table, ser, ser')>>
    /\ last' = [op |-> "write_file", arg |-> symbol_table, pre |-> ser]
    /\ UNCHANGED <<de, phase, readres>>

\* GotoBinaryDeserializer::new on the file with one field replaced, or on a
\* proper prefix of the file
NewDeserializerOnSplice(sp) ==
    /\ phase = "write"
    /\ Len(written) = 1
    /\ de' = GotoBinaryDeserializer_new(Splice(ser.writer, sp))
    /\ phase' = "spliced"
    /\ written' = Append(written, [op |-> "splice", val |-> sp,
                                   from |-> sp.from, to |-> sp.to])
    /\ last' = [op |-> "new"]
    /\ UNCHANGED <<ser, readres>>

\* deserializer.read_file()
ReadFile ==
    /\ phase \in {"read", "spliced"}
    /\ readres = <<>>
    /\ LET res == read_file(de)
       IN /\ de' = res.d
          /\ readres' = <<ReadResult(res, de)>>
    /\ last' = [op |-> "read_file", pre |-> de]
    /\ UNCHANGED <<ser, phase, written>>

NextFile ==
    \/ \E symbol_table \in SymbolTables : WriteFile(symbol_table)
    \/ NewDeserializer
    \/ \E sp \in SpliceChoices : NewDeserializerOnSplice(sp)
    \/ ReadFile

SpecFile == Init /\ [][NextFile]_vars

----------------------------------------------------------------------------
(* Properties of files                                                     *)

\* The eight references of a symbol in wire order, with the numbers the
\* serializer's engine gives to what they refer to
SymbolParts(symbol) ==
    [i \in 1..8 |->
        IF i <= 3
        THEN [tag |-> 0, kind |-> "irep",
              number |-> number_irep(ser.numbering,
                                     <<symbol.typ, symbol.value, symbol.location>>[i]).r.number]
        ELSE [tag |-> 0, kind |-> "string",
              number |-> number_string(ser.numbering,
                                       <<symbol.name, symbol.module, symbol.base_name,
                                         symbol.mode, symbol.pretty_name>>[i - 3]).r.number]]

\* Walk the records of the symbols from an output offset: eight references,
\* one 0x00 byte and one varint each; gives the offset after the last
\* record, or -1 when the output does not have this layout
RECURSIVE SymbolsEnd(_, _)
SymbolsEnd(symbols, pos) ==
    IF symbols = <<>> THEN pos
    ELSE LET p == PartsEnd(SymbolParts(Head(symbols)), pos)
             e == IF p < 0 \/ p + 1 > Len(Out) THEN 0 ELSE ChainEnd(Out, p + 1)
         IN IF p < 0 \/ p + 1 > Len(Out) \/ Out[p + 1] # 0 \/ e = 0 THEN -1
            ELSE SymbolsEnd(Tail(symbols), e)

\* C15: file layout.  The stream of write_file is the bytes 0x7F 'G' 'B'
\* 'F', the varint 5, the varint of the number N of symbols, N records of
\* three node references, five atom references, one 0x00 byte and one
\* varint, and at the end the varint 0.
C15_FileLayout ==
    (phase = "write" /\ written # <<>> /\ written[1].op = "write_file") =>
        LET symbol_table == written[1].val
            count == <<127, 71, 66, 70, 5>> \o varenc(<<>>, Len(symbol_table))
            e == SymbolsEnd(symbol_table, Len(count))
        IN /\ ser.buf = <<>>
           /\ SubSeq(Out, 1, Len(count)) = count
           /\ e >= 0
           /\ Len(Out) = e + 1
           /\ Out[e + 1] = 0
           /\ Len(SelectSeq(ser.trace, IsTopEvent)) = 8 * Len(symbol_table)

\* The flag word of the k-th symbol of the file written
FlagWord(k) == EncodedValue(Out, FlagStart(k), SymbolEnd(k))

\* Bit b of a flag word
Bit(word, b) == (word \div Pow2(b)) % 2 = 1

\* The bit positions of the flags of a symbol that are true
FlagBits(symbol) ==
    {b \in 0..16 :
        <<symbol.is_volatile, symbol.is_extern, symbol.is_file_local,
          symbol.is_thread_local, symbol.is_static_lifetime, symbol.is_lvalue, FALSE,
          symbol.is_auxiliary, symbol.is_parameter, symbol.is_state_var,
          symbol.is_output, symbol.is_input, symbol.is_exported, symbol.is_macro,
          symbol.is_property, symbol.is_type, symbol.is_weak>>[b + 1]}

\* C16: flag word.  In the flag word write_symbol writes, bit 0 is
\* is_volatile, 1 is_extern, 2 is_file_local, 3 is_thread_local, 4
\* is_static_lifetime, 5 is_lvalue, 6 is always 0, 7 is_auxiliary, 8
\* is_parameter, 9 is_state_var, 10 is_output, 11 is_input, 12 is_exported,
\* 13 is_macro, 14 is_property, 15 is_type, 16 is_weak: a bit is set iff its
\* flag is true, and no bit above 16 is set.
C16_FlagWord ==
    (phase = "write" /\ written # <<>> /\ written[1].op = "write_file") =>
        \A k \in 1..Len(written[1].val) :
            LET word == FlagWord(k)
            IN /\ \A b \in 0..16 : Bit(word, b) <=> b \in FlagBits(written[1].val[k])
               /\ ~Bit(word, 6)
               /\ word < Pow2(17)

\* One symbol with five distinct names, one trivial node and no flag: the
\* file is the header, the count 1, the record and the 0 of the function map
C15_Witness ==
    /\ phase = "write"
    /\ Len(written) = 1
    /\ written[1].op = "write_file"
    /\ written[1].val = <<Symbol(La, La, La, Names5, {})>>
    /\ Out = <<127, 71, 66, 70, 5, 1, 0, 0, 97, 0, 0, 0, 0, 1, 110, 0, 2, 109, 0,
               3, 98, 0, 4, 67, 0, 5, 112, 0, 0, 0, 0>>

\* A symbol with every flag on after one with none: the flag words are 0 and
\* all of the bits 0..16 but bit 6, in three bytes
C16_Witness ==
    /\ phase = "write"
    /\ Len(written) = 1
    /\ written[1].op = "write_file"
    /\ written[1].val = <<Symbol(La, La, La, Names5, {}),
                          Symbol(La, La, La, [Names5 EXCEPT ![1] = <<78>>], FlagNames)>>
    /\ FlagWord(1) = 0
    /\ FlagWord(2) = Pow2(17) - 1 - Pow2(6)
    /\ Segment(FlagStart(2), SymbolEnd(2)) = <<191, 255, 7>>

\* No name of a symbol of the table holds U+0000: the reader is at the
\* placeholder and at the flag word of a record where the writer put them
NulFreeNames(symbol_table) ==
    \A k \in 1..Len(symbol_table) :
        \A str \in {symbol_table[k].name, symbol_table[k].module, symbol_table[k].base_name,
                    symbol_table[k].mode, symbol_table[k].pretty_name} :
            \A i \in 1..Len(str) : str[i] # 0

\* The session wrote a file and ran read_file on it, or on it with the field
\* what replaced
ReadFileOn(what) ==
    /\ readres # <<>>
    /\ written[1].op = "write_file"
    /\ NulFreeNames(written[1].val)
    /\ IF what = "file" THEN phase = "read"
       ELSE phase = "spliced" /\ written[2].val.what = what

\* The value encoded by the bytes that replaced a field
PatchValue == EncodedValue(written[2].val.patch, 0, Len(written[2].val.patch))

\* C17: flag words accepted.  read_file on a file as written (its flag words
\* use the bits 0..16 only) does not fail, and on a file where the flag
\* word of a record is replaced it fails iff the new word has a bit above
\* position 16.
C17_FlagWordAccepted ==
    /\ ReadFileOn("file") => readres[1].tag = "Ok"
    /\ ReadFileOn("flags") =>
           ((readres[1].tag = "Err") <=> (PatchValue >= Pow2(17)))

\* C18: whole-file round trip.  read_file on the bytes of write_file
\* succeeds and reads as many symbols as the table has.
C18_FileRoundTrip ==
    (readres # <<>> /\ written[1].op = "write_file" /\ phase = "read") =>
        /\ readres[1].tag = "Ok"
        /\ de.symbols_read = Len(written[1].val)

\* C19: header validation.  read_file fails and reads no symbol when one of
\* the first four bytes is not 0x7F 'G' 'B' 'F', or when the version
\* encoded after them is not 5.
C19_HeaderValidation ==
    (readres # <<>> /\ written[1].op = "write_file") =>
        LET magic == <<127, 71, 66, 70>>
            e == ChainEnd(de.input, 4)
        IN ((\E i \in 1..4 : i <= Len(de.input) /\ de.input[i] # magic[i])
              \/ (/\ Len(de.input) >= 4
                  /\ SubSeq(de.input, 1, 4) = magic
                  /\ e > 0
                  /\ EncodedValue(de.input, 4, e) # 5))
               => (readres[1].tag = "Err" /\ de.symbols_read = 0)

\* C20: reserved fields.  read_file fails on a file where the placeholder
\* byte of a record is not 0, and on a file whose secondary-table count is
\* not 0.
C20_ReservedFields ==
    /\ ReadFileOn("placeholder") => readres[1].tag = "Err"
    /\ (ReadFileOn("trailer") /\ PatchValue # 0) => readres[1].tag = "Err"

----------------------------------------------------------------------------
(* Properties of the reader on arbitrary byte streams                      *)

\* The bytes that the loop of read_numbered_irep_ref knows: 'S', 'N', 0x00
KnownTags == {83, 78, 0}

\* The stream number has a stream-to-engine mapping in the table
Mapped(map, number) == number < Len(map) /\ At(map, number).some

\* C21: unknown tag byte.  When the loop reading the contents of a node on
\* its first read meets a byte other than 'S', 'N' and 0x00, the read in
\* progress is the last one and returned an error, the stream number of
\* that node has no mapping, and the engine has the nodes it had when the
\* byte was met: the node was not numbered.
C21_UnknownTag ==
    \A i \in 1..Len(de.tags) :
        de.tags[i].byte \notin KnownTags =>
            /\ i = Len(de.tags)
            /\ readres # <<>>
            /\ readres[Len(readres)].tag = "Err"
            /\ readres[Len(readres)].to = de.pos
            /\ ~Mapped(de.irep_map, de.tags[i].number)
            /\ Len(de.numbering.inv_cache.index) = de.tags[i].nodes

\* Node 1 has the complete child 0 and then the byte 'a' where a tag is
\* expected: the child is numbered and mapped, node 1 is not
C21_Witness ==
    /\ phase = "raw"
    /\ de.input = <<1, 0, 0, 83, 0, 0, 0, 97, 0>>
    /\ Len(readres) = 1
    /\ readres[1].tag = "Err"
    /\ readres[1].r = "unexpected character in input stream"
    /\ de.pos = 8
    /\ de.tags[Len(de.tags)] = [number |-> 1, byte |-> 97, nodes |-> 1]
    /\ de.irep_map = <<Some(0)>>
    /\ Len(de.numbering.inv_cache.index) = 1

\* C22: premature end of input.  read_file on a proper prefix of the bytes
\* of write_file, of any length from 0, returns an error.
C22_PrematureEnd ==
    (readres # <<>> /\ phase = "spliced" /\ written[2].val.what = "prefix") =>
        readres[1].tag = "Err"

\* A top-level read: the deserializer before it, its result, the end of the
\* varint it starts with and the stream number that the varint encodes
ReadIsLast == last.op \in {"read_numbered_irep_ref", "read_numbered_string_ref"}
LastRead == readres[Len(readres)]
LastVarintEnd == ChainEnd(last.pre.input, last.pre.pos)
LastNumber == EncodedValue(last.pre.input, last.pre.pos, LastVarintEnd)

\* The result of a read is a NumberedString (else a NumberedIrep)
IsNumberedString(r) == "string" \in DOMAIN r

\* The stream number read by the k-th top-level read
NumberReadBy(k) ==
    EncodedValue(de.input, readres[k].from, ChainEnd(de.input, readres[k].from))

\* The last read is of a stream number whose occurrence count is not zero
LastIsRepeat ==
    /\ ReadIsLast
    /\ LastVarintEnd > 0
    /\ LastNumber <= UsizeMax
    /\ LET count == IF last.op = "read_numbered_irep_ref" THEN last.pre.irep_count
                    ELSE last.pre.string_count
       IN LastNumber < Len(count) /\ At(count, LastNumber) > 0

\* C23: repeat read without reparsing.  A read of a stream number that was
\* read before consumes the varint of the number and nothing else, leaves
\* the engine and both remap tables as they were, and returns the entry of
\* the engine under the mapped number, which is what every earlier
\* top-level read of that stream number returned.
C23_RepeatRead ==
    LastIsRepeat =>
        LET isIrep == last.op = "read_numbered_irep_ref"
            map    == IF isIrep THEN last.pre.irep_map ELSE last.pre.string_map
        IN /\ LastRead.tag = "Ok"
           /\ LastRead.from = last.pre.pos
           /\ LastRead.to = LastVarintEnd
           /\ de.pos = LastVarintEnd
           /\ de.numbering = last.pre.numbering
           /\ de.irep_map = last.pre.irep_map
           /\ de.string_map = last.pre.string_map
           /\ Mapped(map, LastNumber)
           /\ LastRead.r = IF isIrep
                           THEN At(de.numbering.inv_cache.index, At(map, LastNumber).v)
                           ELSE At(de.numbering.inv_string_cache, At(map, LastNumber).v)
           /\ \A k \in 1..(Len(readres) - 1) :
                  (/\ IsNumberedString(readres[k].r) = ~isIrep
                   /\ NumberReadBy(k) = LastNumber)
                      => readres[k].r = LastRead.r

\* Node 1 is first read nested in node 0 and numbered 0 by the engine; the
\* second top-level read is the one byte 01 and returns that node
C23_Witness ==
    /\ phase = "raw"
    /\ de.input = <<0, 0, 0, 83, 1, 0, 0, 0, 1>>
    /\ Len(readres) = 2
    /\ LastIsRepeat
    /\ last.op = "read_numbered_irep_ref"
    /\ readres[1].tag = "Ok" /\ readres[1].r.number = 1
    /\ readres[2] = [tag |-> "Ok", r |-> [number |-> 0, start_index |-> 0],
                     from |-> 8, to |-> 9]
    /\ de.irep_map = <<Some(1), Some(0)>>

\* Every mapping of the table before is in the table after, unchanged
KeepsMappings(before, after) ==
    \A n \in 0..(Len(before) - 1) :
        At(before, n).some => (n < Len(after) /\ At(after, n) = At(before, n))

\* Every mapped stream number has been read at least once
MappedAreCounted(map, count) ==
    \A n \in 0..(Len(map) - 1) :
        At(map, n).some => (n < Len(count) /\ At(count, n) >= 1)

\* C24: no duplicate first-read mapping.  On every byte stream no read ends
\* in the 'already mapped' rejection of add_irep_mapping or
\* add_string_mapping; a mapping, once in a remap table, is never replaced,
\* and only stream numbers that were read have one.
C24_NoDuplicateMapping ==
    /\ \A k \in 1..Len(readres) :
           readres[k].tag = "panic" =>
               readres[k].r \notin {"irep number already mapped",
                                    "string number already mapped"}
    /\ ReadIsLast =>
           /\ KeepsMappings(last.pre.irep_map, de.irep_map)
           /\ KeepsMappings(last.pre.string_map, de.string_map)
    /\ MappedAreCounted(de.irep_map, de.irep_count)
    /\ MappedAreCounted(de.string_map, de.string_count)

\* The stream names node 0 and atom 0 twice each at top level: the second
\* time each is a repeat, and the tables hold one mapping each
C24_Witness ==
    /\ phase = "raw"
    /\ de.input = <<0, 0, 0, 0, 0, 0>>
    /\ Len(readres) = 2
    /\ readres[1].tag = "Ok" /\ readres[1].to = 4
    /\ readres[2].tag = "Ok" /\ readres[2].to = 5
    /\ de.irep_map = <<Some(0)>>
    /\ de.string_map = <<Some(0)>>
    /\ de.irep_count \in {<<1>>, <<2>>}
    /\ de.string_count \in {<<1>>, <<2>>}

\* C25: inverse lookups on the read path.  On every byte stream, a
\* reference whose occurrence count is not zero has a mapping in the remap
\* table and an entry in the engine: no read ends in the failure of
\* irep_map[irep_number], of string_map[string_number] or of an unwrap.
C25_InverseLookups ==
    \A k \in 1..Len(readres) : readres[k].tag # "panic"

----------------------------------------------------------------------------
(* Properties of the occurrence counts and of the engine                   *)

\* Number of write-reference calls made so far, nested ones included, for
\* the node (kind "irep") or the atom (kind "string") of that number
Calls(kind, number) ==
    Cardinality({i \in 1..Len(ser.trace) :
                    ser.trace[i].kind = kind /\ ser.trace[i].number = number})

\* The count of a number in a count table (0 for a number beyond its end)
CountOf(count, number) == IF number < Len(count) THEN At(count, number) ELSE 0

\* C26: occurrence counts.  After any sequence of writes of a serializer
\* session, irep_count[n] and string_count[n] are the numbers of
\* write-reference calls made so far for node n and for atom n, nested
\* calls included, and no count is lower than it was before the last write.
C26_OccurrenceCounts ==
    /\ \A n \in 0..(Len(ser.numbering.inv_cache.index) + Len(ser.irep_count)) :
           CountOf(ser.irep_count, n) = Calls("irep", n)
    /\ \A n \in 0..(Len(ser.numbering.inv_string_cache) + Len(ser.string_count)) :
           CountOf(ser.string_count, n) = Calls("string", n)
    /\ last.op \in {"write_irep_ref", "write_string_ref"} =>
           /\ \A n \in 0..(Len(last.pre.irep_count) - 1) :
                  CountOf(ser.irep_count, n) >= At(last.pre.irep_count, n)
           /\ \A n \in 0..(Len(last.pre.string_count) - 1) :
                  CountOf(ser.string_count, n) >= At(last.pre.string_count, n)

\* The node "a"("a", "b") is written twice as a child and once as a named
\* child of one node, then on its own: four calls, one for each leaf
C26_Witness ==
    /\ phase = "write"
    /\ Len(written) = 2
    /\ written[1].op = "write_irep_ref"
    /\ written[1].val = Irep(StrB, <<AndAB, AndAB>>, << <<StrA, AndAB>> >>)
    /\ written[2].op = "write_irep_ref" /\ written[2].val = AndAB
    /\ ser.irep_count = <<1, 1, 4, 1>>
    /\ ser.string_count = <<2, 3>>
    /\ last.pre.irep_count = <<1, 1, 3, 1>>

\* The key of the node of that number: the slice of the flat keys array from
\* its start index to the start index of the next node
KeyOf(N, number) ==
    LET from == At(N.inv_cache.index, number).start_index
        to   == IF number + 1 < Len(N.inv_cache.index)
                THEN At(N.inv_cache.index, number + 1).start_index
                ELSE Len(N.inv_cache.keys)
    IN SubSeq(N.inv_cache.keys, from + 1, to)

\* The key is id, n, n child numbers, m, m pairs of an atom number and a
\* node number; the atom numbers are assigned and the node numbers are
\* lower than the number of the node
KeyIsBottomUp(N, number) ==
    LET key == KeyOf(N, number)
    IN /\ Len(key) >= 3
       /\ LET n == key[2]
          IN /\ Len(key) >= n + 3
             /\ Len(key) = n + 3 + 2 * key[n + 3]
             /\ key[1] < Len(N.inv_string_cache)
             /\ \A i \in 1..n : key[2 + i] < number
             /\ \A j \in 1..key[n + 3] :
                    /\ key[n + 2 + 2 * j] < Len(N.inv_string_cache)
                    /\ key[n + 3 + 2 * j] < number

BottomUp(N) ==
    \A number \in 0..(Len(N.inv_cache.index) - 1) :
        /\ At(N.inv_cache.index, number).number = number
        /\ KeyIsBottomUp(N, number)

\* C27: bottom-up numbering.  In every state, in the engine of the
\* serializer and in the engine of the deserializer, the key of node n
\* holds child numbers lower than n and atom numbers that are assigned.
C27_BottomUp == BottomUp(ser.numbering) /\ BottomUp(de.numbering)

\* A node with two positional children and a named child that are one
\* shared node with two leaves, written and read back: both engines hold
\* the leaves, the shared node and the parent, in this order
C27_Witness ==
    /\ phase = "read"
    /\ Len(readres) = 1
    /\ readres[1].tag = "Ok"
    /\ written[1].val = Irep(StrB, <<AndAB, AndAB>>, << <<StrA, AndAB>> >>)
    /\ Len(de.numbering.inv_cache.index) = 4
    /\ de.numbering.inv_cache.keys
           = <<1, 0, 0, 0, 0, 0, 1, 2, 0, 1, 0, 0, 2, 2, 2, 1, 1, 2>>
    /\ ser.numbering.inv_cache = de.numbering.inv_cache

IsPrefix(a, b) == Len(a) <= Len(b) /\ SubSeq(b, 1, Len(a)) = a

\* From the engine N to the engine N1 the atom table, the node index and the
\* keys array grew by appending, every number of N names in N1 the atom
\* text and the tree it named in N, and every lookup entry of N is kept
Grows(N, N1) ==
    /\ IsPrefix(N.inv_string_cache, N1.inv_string_cache)
    /\ IsPrefix(N.inv_cache.index, N1.inv_cache.index)
    /\ IsPrefix(N.inv_cache.keys, N1.inv_cache.keys)
    /\ \A number \in 0..(Len(N.inv_string_cache) - 1) :
           numbered_string_from_number(N1, number).v.string
               = numbered_string_from_number(N, number).v.string
    /\ \A number \in 0..(Len(N.inv_cache.index) - 1) :
           Expand(N1, numbered_irep_from_number(N1, number).v)
               = Expand(N, numbered_irep_from_number(N, number).v)
    /\ \A string \in DOMAIN N.string_cache :
           string \in DOMAIN N1.string_cache /\ N1.string_cache[string] = N.string_cache[string]
    /\ \A key \in DOMAIN N.cache :
           key \in DOMAIN N1.cache /\ N1.cache[key] = N.cache[key]

\* C28: monotonic engine.  Over every write of a serializer session and
\* every read of a deserializer session, the engine of the session only
\* grows by appending, and each number assigned before the operation names
\* the same atom text or the same tree after it.
C28_MonotonicEngine ==
    /\ last.op \in {"write_irep_ref", "write_string_ref"} =>
           Grows(last.pre.numbering, ser.numbering)
    /\ ReadIsLast => Grows(last.pre.numbering, de.numbering)

\* The leaf "a" is numbered, then "a"("a", "b"): two keys are appended after
\* the key of the leaf
C28_Witness ==
    /\ phase = "write"
    /\ Len(written) = 2
    /\ written[1].val = La /\ written[2].val = AndAB
    /\ last.op = "write_irep_ref"
    /\ last.pre.numbering.inv_cache.keys = <<0, 0, 0>>
    /\ ser.numbering.inv_cache.keys = <<0, 0, 0, 1, 0, 0, 0, 2, 0, 1, 0>>
    /\ Len(last.pre.numbering.inv_string_cache) = 1
    /\ Len(ser.numbering.inv_string_cache) = 2

\* The atoms and nodes of an irep in the order of the claim: the id, each
\* positional child in full from left to right, for each named child its key
\* and then its value in full, and the irep itself last
RECURSIVE Order(_), OrderOfSubs(_), OrderOfNamedSubs(_)
Order(irep) ==
    <<[kind |-> "string", v |-> irep.id]>>
        \o OrderOfSubs(irep.sub)
        \o OrderOfNamedSubs(irep.named_sub)
        \o <<[kind |-> "irep", v |-> irep]>>

OrderOfSubs(subs) ==
    IF subs = <<>> THEN <<>> ELSE Order(Head(subs)) \o OrderOfSubs(Tail(subs))

OrderOfNamedSubs(named_subs) ==
    IF named_subs = <<>> THEN <<>>
    ELSE <<[kind |-> "string", v |-> Head(named_subs)[1]]>>
             \o Order(Head(named_subs)[2]) \o OrderOfNamedSubs(Tail(named_subs))

\* The values of that kind in the sequence that are not in the set known,
\* each once, in the order of their first appearance
RECURSIVE Fresh(_, _, _)
Fresh(items, kind, known) ==
    IF items = <<>> THEN <<>>
    ELSE IF Head(items).kind = kind /\ Head(items).v \notin known
         THEN <<Head(items).v>> \o Fresh(Tail(items), kind, known \cup {Head(items).v})
         ELSE Fresh(Tail(items), kind, known)

\* The atom texts and the trees that an engine has numbered
StringsIn(N) == {N.inv_string_cache[i].string : i \in 1..Len(N.inv_string_cache)}
TreesIn(N) == {Expand(N, N.inv_cache.index[i]) : i \in 1..Len(N.inv_cache.index)}

\* C29: numbering order.  number_irep appends to the atom table the atoms
\* of the irep that the engine did not have, and to the node index the
\* nodes that it did not have, each in the order: id, positional children
\* left to right (each in full), key then value of each named child left
\* to right, the node itself; the new entries get consecutive numbers.
C29_NumberingOrder ==
    last.op = "number_irep" =>
        LET N0 == last.pre.numbering
            N1 == ser.numbering
            strings == Fresh(Order(last.arg), "string", StringsIn(N0))
            ireps   == Fresh(Order(last.arg), "irep", TreesIn(N0))
            s0 == Len(N0.inv_string_cache)
            i0 == Len(N0.inv_cache.index)
        IN /\ N1.inv_string_cache
                  = N0.inv_string_cache
                      \o [i \in 1..Len(strings) |->
                             [number |-> s0 + i - 1, string |-> strings[i]]]
           /\ Len(N1.inv_cache.index) = i0 + Len(ireps)
           /\ SubSeq(N1.inv_cache.index, 1, i0) = N0.inv_cache.index
           /\ \A i \in 1..Len(ireps) :
                  /\ N1.inv_cache.index[i0 + i].number = i0 + i - 1
                  /\ Expand(N1, N1.inv_cache.index[i0 + i]) = ireps[i]

\* After the leaf "b", the irep "a"("b", "a"("a", "b")) adds the atom "a"
\* and the nodes "a", "a"("a", "b") and the irep itself, in this order
C29_Witness ==
    /\ Len(written) = 2
    /\ written[1].op = "number_irep" /\ written[1].val = Lb
    /\ last.op = "number_irep"
    /\ last.arg = Irep(StrA, <<Lb, AndAB>>, <<>>)
    /\ ser.numbering.inv_string_cache
           = <<[number |-> 0, string |-> StrB], [number |-> 1, string |-> StrA]>>
    /\ Len(ser.numbering.inv_cache.index) = 4
    /\ Expand(ser.numbering, ser.numbering.inv_cache.index[2]) = La
    /\ Expand(ser.numbering, ser.numbering.inv_cache.index[3]) = AndAB
    /\ written[2].r.number = 3

\* The NumberedString of a string that the engine has numbered
NumberedStringOf(N, string) == [number |-> N.string_cache[string], string |-> string]

\* The NumberedIrep r stands in the engine N for the tree t, whose children
\* stand at the numbers that number_irep gives them
Decodes(N, r, t) ==
    /\ id(N, r) = NumberedStringOf(N, t.id)
    /\ nof_sub(N, r) = Len(t.sub)
    /\ \A i \in 1..Len(t.sub) :
           /\ sub(N, r, i - 1) = number_irep(N, t.sub[i]).r
           /\ Expand(N, sub(N, r, i - 1)) = t.sub[i]
    /\ nof_named_sub(N, r) = Len(t.named_sub)
    /\ \A j \in 1..Len(t.named_sub) :
           /\ named_sub(N, r, j - 1)[1] = NumberedStringOf(N, t.named_sub[j][1])
           /\ named_sub(N, r, j - 1)[2] = number_irep(N, t.named_sub[j][2]).r
           /\ Expand(N, named_sub(N, r, j - 1)[2]) = t.named_sub[j][2]

\* C30: accessors decode the packed key.  For every irep t that number_irep
\* numbered as r in the session, in every later state of the engine, id,
\* nof_sub, sub, nof_named_sub and named_sub on r give the numbered id atom
\* of t, its number of positional children, the numbered node of each of
\* them, its number of named children and the numbered key atom and value
\* node of each of them.
C30_AccessorsDecode ==
    \A k \in 1..Len(written) :
        written[k].op = "number_irep" =>
            Decodes(ser.numbering, written[k].r, written[k].val)

\* The key of "a"("b"; "b" = "a") lies between the keys of other nodes: it
\* starts after the key of "b"("a" = ...) and another key follows it
C30_Witness ==
    /\ Len(written) = 3
    /\ written[1].op = "number_irep"
    /\ written[1].val = Irep(StrB, <<>>, << <<StrA, AndAB>> >>)
    /\ written[2].op = "number_irep"
    /\ written[2].val = Irep(StrA, <<Lb>>, << <<StrB, La>> >>)
    /\ written[3].op = "number_irep"
    /\ written[3].val = Irep(StrA, <<La, La>>, <<>>)
    /\ written[2].r.start_index > 0
    /\ written[3].r.start_index > written[2].r.start_index
    /\ nof_sub(ser.numbering, written[2].r) = 1
    /\ nof_named_sub(ser.numbering, written[2].r) = 1
    /\ Expand(ser.numbering, named_sub(ser.numbering, written[2].r, 0)[2]) = La

----------------------------------------------------------------------------
(* Properties of the atom number space                                     *)

\* The irep and the ireps below it
RECURSIVE SubtreesOf(_)
SubtreesOf(irep) ==
    {irep}
    \cup UNION {SubtreesOf(irep.sub[i]) : i \in 1..Len(irep.sub)}
    \cup UNION {SubtreesOf(irep.named_sub[j][2]) : j \in 1..Len(irep.named_sub)}

\* The five atom fields of a symbol
FieldsOf(symbol) ==
    <<symbol.name, symbol.module, symbol.base_name, symbol.mode, symbol.pretty_name>>

\* The distinct ireps of the table of a file, nested ones included
TreesOfTable(symbol_table) ==
    UNION {SubtreesOf(symbol_table[k].typ) \cup SubtreesOf(symbol_table[k].value)
               \cup SubtreesOf(symbol_table[k].location) : k \in 1..Len(symbol_table)}

\* Number of atom fields of the table with that text
FieldUses(symbol_table, text) ==
    Cardinality({<<k, f>> \in (1..Len(symbol_table)) \X (1..5) :
                    FieldsOf(symbol_table[k])[f] = text})

\* Number of ids and of named-child keys with that text in the distinct
\* ireps of the table: each distinct irep has its contents written once
IdAndKeyUses(symbol_table, text) ==
    LET trees == TreesOfTable(symbol_table)
    IN Cardinality({t \in trees : t.id = text})
       + Cardinality({<<t, j>> \in trees \X (1..2) :
                         j <= Len(t.named_sub) /\ t.named_sub[j][1] = text})

\* The texts of the table: atom fields, ids and named-child keys
TextsOfTable(symbol_table) ==
    {FieldsOf(symbol_table[k])[f] : k \in 1..Len(symbol_table), f \in 1..5}
    \cup {t.id : t \in TreesOfTable(symbol_table)}
    \cup {t.named_sub[j][1] : <<t, j>> \in
             {<<t, j>> \in TreesOfTable(symbol_table) \X (1..2) : j <= Len(t.named_sub)}}

\* The write-reference calls for that atom number that wrote more than the
\* varint of the number
FullStringWrites(number) ==
    {i \in 1..Len(ser.trace) :
        /\ ser.trace[i].kind = "string"
        /\ ser.trace[i].number = number
        /\ ser.trace[i].to - ser.trace[i].from > Len(varenc(<<>>, number))}

\* C31: shared atom number space.  After write_file the engine numbers the
\* texts of the table (atom fields, ids, named-child keys) and nothing
\* else, one number per text; the occurrence count of that number is the
\* number of atom fields with the text plus the number of ids and keys with
\* the text in the distinct ireps of the table; and exactly one
\* write-reference call for the number wrote the text, the first one.
C31_SharedAtomSpace ==
    (written # <<>> /\ written[1].op = "write_file") =>
        LET symbol_table == written[1].val
            N == ser.numbering
        IN /\ StringsIn(N) = TextsOfTable(symbol_table)
           /\ Len(N.inv_string_cache) = Cardinality(TextsOfTable(symbol_table))
           /\ \A text \in TextsOfTable(symbol_table) :
                  LET number == N.string_cache[text]
                  IN /\ At(N.inv_string_cache, number).string = text
                     /\ CountOf(ser.string_count, number)
                            = FieldUses(symbol_table, text)
                                + IdAndKeyUses(symbol_table, text)
                     /\ Calls("string", number) = CountOf(ser.string_count, number)
                     /\ Cardinality(FullStringWrites(number)) = 1
                     /\ \A i \in FullStringWrites(number) :
                            IsFirstWrite(ser.trace[i])

\* Two symbols: the text "b" is first written as an atom field of the first
\* symbol and is then the id of a node of the second; the text "a" is first
\* written as the id of a node and is then an atom field.  Each has one count.
C31_Witness ==
    /\ phase = "write"
    /\ Len(written) = 1
    /\ written[1].op = "write_file"
    /\ written[1].val
           = <<Symbol(La, La, La, Names5, {}),
               Symbol(AndAB, Irep(StrB, <<AndAB, AndAB>>, << <<StrA, AndAB>> >>), La,
                      <<StrA, StrB, StrA, <<ChDigit0>>, StrB>>, {"is_lvalue", "is_type"})>>
    /\ CountOf(ser.string_count, ser.numbering.string_cache[StrA]) = 5
    /\ CountOf(ser.string_count, ser.numbering.string_cache[StrB]) = 5

----------------------------------------------------------------------------
(* The trees and texts that a byte stream defines, read from the stream    *)
(* alone, with no engine: P is [pos, ok, sdef, idef], where sdef and idef   *)
(* give the text and the tree that each stream number stands for           *)

ParseStart == [pos |-> 0, ok |-> TRUE, sdef |-> EmptyMap, idef |-> EmptyMap]

ParseFail(P) == [P EXCEPT !.ok = FALSE]

\* The characters from offset pos to the first unescaped 0x00, a backslash
\* making the next byte a character; characters above 0x7F are left out
RECURSIVE ParseText(_, _)
ParseText(pos, text) ==
    IF pos >= Len(de.input) \/ At(de.input, pos) >= 128
    THEN [ok |-> FALSE, pos |-> pos, v |-> text]
    ELSE IF At(de.input, pos) = 0 THEN [ok |-> TRUE, pos |-> pos + 1, v |-> text]
    ELSE IF At(de.input, pos) = ChBackslash
         THEN IF pos + 1 >= Len(de.input) \/ At(de.input, pos + 1) >= 128
              THEN [ok |-> FALSE, pos |-> pos, v |-> text]
              ELSE ParseText(pos + 2, Append(text, At(de.input, pos + 1)))
    ELSE ParseText(pos + 1, Append(text, At(de.input, pos)))

\* An atom reference at P.pos: a known stream number, or a new one followed
\* by its text
ParseString(P) ==
    LET e == ChainEnd(de.input, P.pos)
        n == EncodedValue(de.input, P.pos, e)
    IN IF ~P.ok \/ e = 0 \/ n > UsizeMax THEN [p |-> ParseFail(P), v |-> <<>>]
       ELSE IF n \in DOMAIN P.sdef THEN [p |-> [P EXCEPT !.pos = e], v |-> P.sdef[n]]
       ELSE LET t == ParseText(e, <<>>)
            IN IF ~t.ok THEN [p |-> ParseFail(P), v |-> <<>>]
               ELSE [p |-> [P EXCEPT !.pos = t.pos, !.sdef = MapPut(@, n, t.v)],
                     v |-> t.v]

RECURSIVE ParseNode(_), ParseNamed(_), ParseContents(_, _, _)

\* The contents of node n after its id: 'S' and a node, any number of times,
\* then 'N', an atom and a node, any number of times, then 0x00
ParseContents(P, n, irep) ==
    IF ~P.ok \/ P.pos >= Len(de.input) THEN [p |-> ParseFail(P), v |-> irep]
    ELSE LET tag == At(de.input, P.pos)
             P1  == [P EXCEPT !.pos = @ + 1]
         IN IF tag = 0
            THEN [p |-> [P1 EXCEPT !.idef = MapPut(@, n, irep)], v |-> irep]
            ELSE IF tag = 83 /\ irep.named_sub = <<>>
                 THEN CHOOSE r \in
                        {ParseContents(c.p, n, [irep EXCEPT !.sub = Append(@, c.v)]) :
                            c \in {ParseNode(P1)}} : TRUE
            ELSE IF tag = 78
                 THEN CHOOSE r \in
                        {ParseContents(c.p, n,
                             [irep EXCEPT !.named_sub = Append(@, <<c.k, c.v>>)]) :
                            c \in {ParseNamed(P1)}} : TRUE
            ELSE [p |-> ParseFail(P), v |-> irep]

\* A named sub at P.pos: an atom reference and a node reference
ParseNamed(P) ==
    CHOOSE r \in
        UNION {{[p |-> c.p, k |-> k.v, v |-> c.v] : c \in {ParseNode(k.p)}} :
                  k \in {ParseString(P)}} : TRUE

\* A node reference at P.pos: a known stream number, or a new one followed
\* by its id and its contents
ParseNode(P) ==
    LET e == ChainEnd(de.input, P.pos)
        n == EncodedValue(de.input, P.pos, e)
    IN IF ~P.ok \/ e = 0 \/ n > UsizeMax THEN [p |-> ParseFail(P), v |-> Leaf(<<>>)]
       ELSE IF n \in DOMAIN P.idef THEN [p |-> [P EXCEPT !.pos = e], v |-> P.idef[n]]
       ELSE CHOOSE r \in
              {ParseContents(i.p, n, Leaf(i.v)) :
                  i \in {ParseString([P EXCEPT !.pos = e])}} : TRUE

\* The stream as the reads so far took it apart: each returned reference is
\* parsed as an atom or as a node from where the previous one ended
RECURSIVE ParseReads(_)
ParseReads(k) ==
    IF k = 0 THEN ParseStart
    ELSE CHOOSE r \in
           {IF IsNumberedString(readres[k].r) THEN ParseString(P).p ELSE ParseNode(P).p :
               P \in {ParseReads(k - 1)}} : TRUE

\* The set of the stream numbers with a mapping
MappedNumbers(map) == {n \in 0..(Len(map) - 1) : At(map, n).some}

AllReadsOk ==
    /\ phase \in {"read", "raw"}
    /\ readres # <<>>
    /\ \A k \in 1..Len(readres) : readres[k].tag = "Ok"

\* C32: the numbers of the reader do not depend on the numbers of the
\* stream.  After reads that all succeeded, the stream parsed on its own is
\* well formed and ends where the reader stands; the stream numbers with a
\* mapping are those the stream defines; the engine tree or text behind the
\* mapping of a stream number is what the stream defines for it; two stream
\* numbers have the same engine number exactly when the stream gives them the
\* same contents; and the engine numbers in use are 0..n-1 with no gap,
\* whatever the stream numbers are.
C32_ReaderNumbering ==
    AllReadsOk =>
        LET P == ParseReads(Len(readres))
            N == de.numbering
        IN /\ P.ok /\ P.pos = de.pos
           /\ DOMAIN P.idef = MappedNumbers(de.irep_map)
           /\ DOMAIN P.sdef = MappedNumbers(de.string_map)
           /\ \A m \in DOMAIN P.idef :
                  Expand(N, At(N.inv_cache.index, At(de.irep_map, m).v)) = P.idef[m]
           /\ \A m \in DOMAIN P.sdef :
                  At(N.inv_string_cache, At(de.string_map, m).v).string = P.sdef[m]
           /\ \A m1, m2 \in DOMAIN P.idef :
                  (P.idef[m1] = P.idef[m2]) <=> (At(de.irep_map, m1).v = At(de.irep_map, m2).v)
           /\ \A m1, m2 \in DOMAIN P.sdef :
                  (P.sdef[m1] = P.sdef[m2]) <=> (At(de.string_map, m1).v = At(de.string_map, m2).v)
           /\ {At(de.irep_map, m).v : m \in DOMAIN P.idef} = 0..(Len(N.inv_cache.index) - 1)
           /\ {At(de.string_map, m).v : m \in DOMAIN P.sdef} = 0..(Len(N.inv_string_cache) - 1)

\* Stream numbers 97, 1 and 0 were read: 1 and 0 stand for the same leaf and
\* share engine number 0, 97 stands for its parent and has engine number 1
C32_Witness ==
    /\ AllReadsOk /\ phase = "raw"
    /\ de.input = <<97, 0, 0, 83, 1, 0, 0, 0, 0, 0, 0>>
    /\ Len(readres) = 2
    /\ MappedNumbers(de.irep_map) = {0, 1, 97}
    /\ At(de.irep_map, 0).v = 0 /\ At(de.irep_map, 1).v = 0
    /\ At(de.irep_map, 97).v = 1
    /\ Len(de.numbering.inv_cache.index) = 2

----------------------------------------------------------------------------
(* Properties of the table sizes                                           *)

\* Number of the numbers with a count that is not zero
CountedNumbers(count) == Cardinality({n \in 0..(Len(count) - 1) : At(count, n) >= 1})

\* The tables of the serializer are no longer than the engine has atoms and
\* nodes
SerializerTablesBounded ==
    /\ Len(ser.string_count) <= Len(ser.numbering.inv_string_cache)
    /\ Len(ser.irep_count) <= Len(ser.numbering.inv_cache.index)

\* C33: table sizes bounded by distinct content.  In every state of a
\* session the count tables of the serializer have at most one entry per
\* atom and per node of its engine, and the count tables and remap tables of
\* the deserializer have at most one entry per atom and per node that the
\* reads referred to so far.
C33_TableSizes ==
    /\ SerializerTablesBounded
    /\ Len(de.string_count) <= CountedNumbers(de.string_count)
    /\ Len(de.string_map) <= CountedNumbers(de.string_count)
    /\ Len(de.irep_count) <= CountedNumbers(de.irep_count)
    /\ Len(de.irep_map) <= CountedNumbers(de.irep_count)

----------------------------------------------------------------------------
(* Properties of the order of the tags                                     *)

\* The last read returned the error of that message
LastReadErr(message) ==
    /\ readres # <<>>
    /\ readres[Len(readres)].tag = "Err"
    /\ readres[Len(readres)].r = message
    /\ readres[Len(readres)].to = de.pos

\* C34: positional children precede named children on read.  When the loop
\* reading the contents of a node meets 'S' after it met 'N' for the same
\* node, that 'S' is the last byte the loop matched, the read in progress
\* returned the error 'incorrect binary structure', the node has no mapping
\* and the engine has the nodes it had when the 'S' was met; and that error
\* is returned in no other case.
C34_SubsBeforeNamedSubs ==
    /\ \A i, j \in 1..Len(de.tags) :
          (/\ i < j
           /\ de.tags[i].number = de.tags[j].number
           /\ de.tags[i].byte = 78
           /\ de.tags[j].byte = 83) =>
              /\ j = Len(de.tags)
              /\ LastReadErr("incorrect binary structure")
              /\ ~Mapped(de.irep_map, de.tags[j].number)
              /\ Len(de.numbering.inv_cache.index) = de.tags[j].nodes
    /\ \A k \in 1..Len(readres) :
          (readres[k].tag = "Err" /\ readres[k].r = "incorrect binary structure") =>
              /\ de.tags # <<>>
              /\ de.tags[Len(de.tags)].byte = 83
              /\ \E i \in 1..(Len(de.tags) - 1) :
                    /\ de.tags[i].number = de.tags[Len(de.tags)].number
                    /\ de.tags[i].byte = 78

\* Node 1 has the named sub (atom 0, node 0) and then 'S': the child is
\* numbered and mapped, node 1 is not, and the read stopped after the 'S'
C34_Witness ==
    /\ phase = "raw"
    /\ de.input = <<1, 0, 0, 78, 0, 0, 0, 0, 83, 0>>
    /\ Len(readres) = 1
    /\ LastReadErr("incorrect binary structure")
    /\ de.pos = 9
    /\ de.tags[Len(de.tags)] = [number |-> 1, byte |-> 83, nodes |-> 1]
    /\ de.irep_map = <<Some(0)>>
    /\ Len(de.numbering.inv_cache.index) = 1

----------------------------------------------------------------------------
(* Properties of the caches of the engine                                  *)

\* The atom map and the inverse atom vector of N describe the same numbering
AtomCachesAgree(N) ==
    /\ Cardinality(DOMAIN N.string_cache) = Len(N.inv_string_cache)
    /\ \A i \in 0..(Len(N.inv_string_cache) - 1) :
          /\ At(N.inv_string_cache, i).number = i
          /\ At(N.inv_string_cache, i).string \in DOMAIN N.string_cache
          /\ N.string_cache[At(N.inv_string_cache, i).string] = i

\* The node map and the node index of N describe the same numbering
NodeCachesAgree(N) ==
    /\ Cardinality(DOMAIN N.cache) = Len(N.inv_cache.index)
    /\ \A n \in 0..(Len(N.inv_cache.index) - 1) :
          /\ At(N.inv_cache.index, n).number = n
          /\ n >= 1 => At(N.inv_cache.index, n - 1).start_index
                          < At(N.inv_cache.index, n).start_index
          /\ At(N.inv_cache.index, n).start_index < Len(N.inv_cache.keys)
          /\ KeyOf(N, n) \in DOMAIN N.cache
          /\ N.cache[KeyOf(N, n)] = n

\* C35: forward and inverse caches agree.  In every state of the engine of
\* the serializer and of the engine of the deserializer, the atom map and
\* the inverse atom vector have the same length and entry i of the vector
\* has number i and the text that the map sends to i; the node map and the
\* node index have the same length, entry n of the index has number n, the
\* start offsets are strictly increasing, and the keys from the start offset
\* of n to the start offset of n + 1 are the key that the map sends to n.
C35_CachesAgree ==
    /\ AtomCachesAgree(ser.numbering) /\ NodeCachesAgree(ser.numbering)
    /\ AtomCachesAgree(de.numbering) /\ NodeCachesAgree(de.numbering)

\* Both engines hold two atoms and three nodes, the reader having rebuilt
\* them from the bytes of the writer
C35_Witness ==
    /\ phase = "read"
    /\ written # <<>> /\ Len(readres) = Len(written)
    /\ Len(ser.numbering.inv_string_cache) = 2
    /\ Len(ser.numbering.inv_cache.index) = 3
    /\ Len(de.numbering.inv_string_cache) = 2
    /\ Len(de.numbering.inv_cache.index) = 3
    /\ Len(de.numbering.inv_cache.keys) > 9

----------------------------------------------------------------------------
(* Properties of numbering a known tree                                    *)

\* C36: re-numbering is a no-op.  When number_irep is called on a tree all
\* of whose nodes the engine already holds (its atoms with them), the
\* engine after the call is the engine before it, field by field, and the
\* result is the entry that the node index already had for that tree.
C36_RenumberingNoOp ==
    (/\ last.op = "number_irep"
     /\ SubtreesOf(last.arg) \subseteq TreesIn(last.pre.numbering)) =>
        LET N0 == last.pre.numbering
            N1 == ser.numbering
            r  == written[Len(written)].r
        IN /\ N1.string_cache = N0.string_cache
           /\ N1.inv_string_cache = N0.inv_string_cache
           /\ N1.cache = N0.cache
           /\ N1.inv_cache.index = N0.inv_cache.index
           /\ N1.inv_cache.keys = N0.inv_cache.keys
           /\ r.number < Len(N0.inv_cache.index)
           /\ r = At(N0.inv_cache.index, r.number)
           /\ Expand(N0, r) = last.arg

\* "a"("a", "b") was numbered as a child of another tree, a different tree
\* was numbered next, and then "a"("a", "b") on its own: nothing was added
C36_Witness ==
    /\ Len(written) = 3
    /\ written[1].val = Irep(StrA, <<AndAB, Lb>>, <<>>)
    /\ written[2].val = Irep(StrB, <<>>, << <<StrA, AndAB>> >>)
    /\ written[3].val = AndAB
    /\ last.op = "number_irep" /\ last.arg = AndAB
    /\ AndAB \in TreesIn(last.pre.numbering)
    /\ ser.numbering = last.pre.numbering
    /\ written[3].r.number = 2

----------------------------------------------------------------------------
(* Properties of the numbers of the writer and of the reader               *)

\* Every mapping of the table sends a stream number to itself
IdentityOn(map) ==
    \A n \in 0..(Len(map) - 1) : At(map, n).some => At(map, n).v = n

\* The reader read the stream of the writer without a failure; its remap
\* tables are the identity; and once it made as many reads as the writer
\* made writes, every atom and node of the writer has a mapping and the
\* engine of the reader is the engine of the writer
NumberingsCoincide ==
    /\ \A k \in 1..Len(readres) : readres[k].tag = "Ok"
    /\ IdentityOn(de.string_map) /\ IdentityOn(de.irep_map)
    /\ Len(readres) = Len(written) =>
          /\ \A n \in 0..(Len(ser.numbering.inv_string_cache) - 1) :
                Mapped(de.string_map, n)
          /\ \A n \in 0..(Len(ser.numbering.inv_cache.index) - 1) :
                Mapped(de.irep_map, n)
          /\ de.numbering = ser.numbering

\* No string written, and no id or key of an irep written, holds U+0000
NulFreeWrites ==
    \A k \in 1..Len(written) :
        \A s \in (IF written[k].op = "write_string_ref" THEN {written[k].val}
                  ELSE StringsOf(written[k].val)) :
            \A i \in 1..Len(s) : s[i] # 0

\* The numberings coincide in the sessions that write no U+0000
NumberingsCoincideNulFree == (phase = "read" /\ NulFreeWrites) => NumberingsCoincide

\* C37: writer and reader numberings coincide on serializer output.  A
\* fresh deserializer reading what a fresh serializer wrote by write_irep_ref
\* and write_string_ref calls gives every atom and node the engine number
\* the writer gave it: both remap tables are the identity on the stream
\* numbers that occur, and the two engines are equal when the reads are done.
C37_NumberingsCoincide == phase = "read" => NumberingsCoincide

----------------------------------------------------------------------------
(* Properties of the bytes consumed by read_file                           *)

\* read_file stands at the end of the file, and each of its read_symbol
\* calls ended where the writer ended the record of that symbol
ExactConsumption ==
    /\ de.pos = Len(de.input)
    /\ readres[1].to = Len(ser.writer)
    /\ Len(de.symbol_ends) = Len(written[1].val)
    /\ \A k \in 1..Len(de.symbol_ends) : de.symbol_ends[k] = SymbolEnd(k)

\* read_file ran and succeeded on the file that write_file wrote
ReadFileSucceeded ==
    /\ phase = "read"
    /\ readres # <<>>
    /\ written[1].op = "write_file"
    /\ readres[1].tag = "Ok"

\* No irep of the table has an id or a key holding U+0000
NulFreeTrees(symbol_table) ==
    \A k \in 1..Len(symbol_table) :
        \A irep \in {symbol_table[k].typ, symbol_table[k].value, symbol_table[k].location} :
            \A s \in StringsOf(irep) : \A i \in 1..Len(s) : s[i] # 0

\* Exact consumption for the tables that hold no U+0000
ExactConsumptionNulFree ==
    (ReadFileSucceeded /\ NulFreeNames(written[1].val) /\ NulFreeTrees(written[1].val))
        => ExactConsumption

\* C38: exact consumption.  When read_file succeeds on the bytes that
\* write_file wrote, it has consumed every byte of them, and each record
\* was read up to the offset where the writer started the next record (the
\* function map after the last one).
C38_ExactConsumption == ReadFileSucceeded => ExactConsumption

============================================================================
